---------------------------- MODULE Spec2Model ----------------------------
(***************************************************************************)
(* Mini's IPA Repo: the Download Counter (assets/js/github-downloads.js)   *)
(* and the service worker (sw.js) as state machines.                       *)
(*                                                                         *)
(* Spec      the Download Counter of one tab (tab 1) with its environment: *)
(*           the clock, GitHub, localStorage's TTL, and the other tabs of  *)
(*           the origin as senders of broadcast messages.                  *)
(***************************************************************************)
EXTENDS Integers, Sequences, FiniteSets, TLC

(***************************************************************************)
(* Bounds of the model.                                                    *)
(***************************************************************************)
\* events the environment triggers in one run: init calls that pass the
\* double-init guard, recordDownload calls, poll ticks, messages of other
\* tabs, increments of GitHub's totals
MaxEvents == 4
\* POST_DL_DELAY_MS (45 s) in clock ticks of the model
PostDlTicks == 1

Tabs == {1, 2}
\* the tabs whose Download Counter runs in Spec; the others only send
Local == {1}
\* the bundle identifiers of the apps array handed to init
Bundles == {"a", "b"}
\* null: the count of an app whose repository fetch failed
Null == -9
\* the GitHub total of every app when the model starts
Gh0 == 1

(***************************************************************************)
(* State of the Download Counter.                                          *)
(***************************************************************************)
VARIABLES
    counts,        \* [tab -> Map bundleId -> count]            (_counts)
    apps,          \* [tab -> BOOLEAN]: _apps.length > 0        (_apps)
    pollTimer,     \* [tab -> timer id or 0 (null)]             (_pollTimer)
    postDlTimer,   \* [tab -> timer id or 0 (null)]             (_postDlTimer)
    pendingInit,   \* [tab -> BOOLEAN]                          (_pendingInit)
    channel,       \* [tab -> BOOLEAN]: _channel is not null    (_channel)
    timers,        \* [tab -> set of pending timers of the tab's event loop]
    inflight,      \* [tab -> sequence of fetch cycles awaiting _fetchAllDownloads]
    inbox,         \* [tab -> sequence of broadcast messages not yet handled]
    cache,         \* localStorage[CACHE_KEY]: NoCache or [fresh, data]
    gh,            \* [bundleId -> the GitHub download_count total]
    events,        \* history: how many bounded events have happened
    sinceDl,       \* history: [tab -> ticks since its last recordDownload]
    fires,         \* history: [tab -> post-download timers fired since then]
    quiet,         \* history: [tab -> destroyed, and no init/recordDownload since]
    recorded,      \* history: [tab -> [bundleId -> recordDownload calls]]
    stale,         \* history: [tab -> a fetched total below the count was merged]
    superseded     \* history: [tab -> the last recordDownload replaced a timer]

dcVars == <<counts, apps, pollTimer, postDlTimer, pendingInit, channel,
            timers, inflight, inbox, cache, gh, events, sinceDl, fires, quiet,
            recorded, stale, superseded>>

(***************************************************************************)
(* State of the service worker.                                            *)
(***************************************************************************)
VARIABLES
    swPhase,       \* parsed, installing, installed, activating, activated
    skipCalled,    \* self.skipWaiting() has been called
    oldActive,     \* an earlier version still controls the pages
    buckets,       \* CacheStorage: [name -> [exists, keys in insertion order]]
    precache,      \* install: CRITICAL_ASSETS whose cache.add has not settled
    cleanup,       \* cleanOldCaches: [pc, lock, todo]
    preload,       \* navigation preload: [support, enabled, settled]
    reqs,          \* the fetch events handled so far, each with its handler's state
    skipMsg,       \* history: a message with action skipWaiting was received
    precached,     \* history: the URLs install has put in the shell bucket
    before         \* history: CacheStorage as deleteOldCaches found it

swVars == <<swPhase, skipCalled, oldActive, buckets, precache, cleanup, preload,
            reqs, skipMsg, precached, before>>

\* what the buckets hold beside the URLs
VARIABLES
    stamps,        \* [releases URL -> x-sw-cached-at of its entry in the data bucket]
    stored         \* history: every entry written by a fetch handler

metaVars == <<stamps, stored>>

(***************************************************************************)
(* State of the page (app.js).                                             *)
(***************************************************************************)
VARIABLES
    online,        \* [tab -> BOOLEAN]                          (AppState.isOnline)
    clicks,        \* history: [tab -> [bundleId -> downloads trackDownload started]]
    unloaded       \* history: [tab -> the beforeunload listeners have run]

pageVars == <<online, clicks, unloaded>>

(***************************************************************************)
(* A function or a scenario studied on its own.                            *)
(***************************************************************************)
VARIABLES
    cycle,         \* one network cycle of _fetchAllDownloads
    merge,         \* one merge of an incoming count into the count in memory
    sync,          \* the polls of initialized tabs behind the worker's bucket
    call           \* one call of a function: its arguments and its result

fnVars == <<cycle, merge, sync, call>>

nonCallVars == <<dcVars, swVars, metaVars, pageVars, cycle, merge, sync>>

vars == <<dcVars, swVars, metaVars, pageVars, fnVars>>

\* what an operation of the Download Counter leaves alone
nonDcVars == <<swVars, metaVars, pageVars, fnVars>>

\* what a step of the service worker leaves alone
nonSwVars == <<dcVars, pageVars, fnVars>>

\* what a step that writes no entry leaves alone
nonSwState == <<metaVars, nonSwVars>>


\* undefined: what Map.get answers for a key the map does not hold
Undef == -8

\* a Map or plain object keyed by bundle id, as a total function: Undef where
\* the key is absent
Keys(m) == {k \in Bundles : m[k] # Undef}

EmptyMap == [k \in Bundles |-> Undef]

NoCache == [present |-> FALSE, fresh |-> FALSE, data |-> EmptyMap]

(***************************************************************************)
(* Map helpers: Map.get(k) ?? d and Map.set(k, v).                         *)
(***************************************************************************)
Get(m, k, d) == IF m[k] # Undef /\ m[k] # Null THEN m[k] ELSE d

Put(m, k, v) == [m EXCEPT ![k] = v]

\* the relational > of JavaScript on number-or-null operands: null is 0
JsGt(x, y) == (IF x = Null THEN 0 ELSE x) > (IF y = Null THEN 0 ELSE y)

(***************************************************************************)
(* The three merge loops of init, the poll callback and the post-download  *)
(* callback: for (const [id, count] of fresh)                              *)
(*     if (count !== null && count > (_counts.get(id) ?? -1)) set(id,count)*)
(***************************************************************************)
\* the loop without its comparison: the fetched total always wins
MergeLatest(cur, fresh) ==
    [k \in Bundles |->
        IF k \in Keys(fresh) /\ fresh[k] # Null THEN fresh[k] ELSE cur[k]]

MergeMax(cur, fresh) ==
    [k \in Bundles |->
        IF k \in Keys(fresh) /\ fresh[k] # Null /\ fresh[k] > Get(cur, k, -1)
        THEN fresh[k]
        ELSE cur[k]]

\* some fetched total is below the count in memory
Lower(cur, fresh) ==
    \E k \in Keys(fresh) : fresh[k] # Null /\ fresh[k] < Get(cur, k, -1)

\* the loop without count !== null: null > -1 holds, null is 0 there
MergeNoNullTest(cur, fresh) ==
    [k \in Bundles |->
        IF k \in Keys(fresh) /\ JsGt(fresh[k], Get(cur, k, -1))
        THEN fresh[k]
        ELSE cur[k]]

InitMerge(cur, fresh) == MergeMax(cur, fresh)

PollMerge(cur, fresh) == MergeMax(cur, fresh)

PostDlMerge(cur, fresh) == MergeMax(cur, fresh)

(***************************************************************************)
(* _channel.onmessage.                                                     *)
(***************************************************************************)
\* the counts-update branch without its comparison: the snapshot overwrites
OnCountsUpdateLatest(cur, incoming) ==
    [k \in Bundles |-> IF k \in Keys(incoming) THEN incoming[k] ELSE cur[k]]

\* counts-update: if (count > (_counts.get(id) ?? -1)) _counts.set(id, count)
OnCountsUpdate(cur, incoming) ==
    [k \in Bundles |->
        IF k \in Keys(incoming) /\ JsGt(incoming[k], Get(cur, k, -1))
        THEN incoming[k]
        ELSE cur[k]]

\* optimistic-increment: _counts.set(id, (_counts.get(id) ?? 0) + 1)
OnOptimisticIncrement(cur, bundleId) ==
    IF bundleId = "" THEN cur ELSE Put(cur, bundleId, Get(cur, bundleId, 0) + 1)

OnMessage(cur, m) ==
    IF m.type = "counts-update" THEN OnCountsUpdate(cur, m.counts)
    ELSE IF m.type = "optimistic-increment"
         THEN OnOptimisticIncrement(cur, m.bundleId)
         ELSE cur

CountsUpdate(c) == [type |-> "counts-update", counts |-> c, bundleId |-> ""]

OptimisticIncrement(b) ==
    [type |-> "optimistic-increment", counts |-> EmptyMap, bundleId |-> b]

\* _broadcast without its null test and its try: posting with no channel
\* throws
BroadcastThrowsUnguarded(t) == ~channel[t]

\* _broadcast: if (!_channel) return; try { postMessage } catch { } returns
\* normally whatever the channel does
BroadcastThrows(t) == FALSE

\* _broadcast: postMessage reaches every other tab whose channel is open
Broadcast(t, m, ib) ==
    IF channel[t]
    THEN [u \in Tabs |-> IF u # t /\ channel[u] THEN Append(ib[u], m) ELSE ib[u]]
    ELSE ib

(***************************************************************************)
(* localStorage cache.                                                     *)
(***************************************************************************)
\* _readCache: the data when the entry exists and is younger than the TTL
CacheHit == cache.present /\ cache.fresh

ReadCache == cache.data

\* _writeCache leaving the entry as it is
WriteCacheSkipped(data) == cache

\* _writeCache: localStorage.setItem with ts: Date.now()
WriteCache(data) == [present |-> TRUE, fresh |-> TRUE, data |-> data]

(***************************************************************************)
(* Timers of a tab's event loop.                                           *)
(***************************************************************************)
TimerIds == 1 .. (MaxEvents + 3)

Pending(t, kind) == {x \in timers[t] : x.kind = kind}

\* setTimeout/setInterval hand out an id no live timer or kept handle has
FreshId(t) ==
    CHOOSE i \in TimerIds :
        /\ i \notin {x.id : x \in timers[t]} \cup {pollTimer[t], postDlTimer[t]}
        /\ \A j \in 1 .. (i - 1) :
              j \in {x.id : x \in timers[t]} \cup {pollTimer[t], postDlTimer[t]}

\* clearTimeout/clearInterval(id)
Clear(ts, id) == {x \in ts : x.id # id}

(***************************************************************************)
(* _fetchAllDownloads.                                                     *)
(***************************************************************************)
\* the apps of the array whose downloadUrl _deriveRepoInfo can parse; the
\* others are skipped with a warning and are in no fetch result
Tracked == {"a"}

\* What one network cycle can return for the tracked apps: null when the
\* fetch of the app's repository failed, else a total GitHub has reported (the
\* service worker may answer with an older stored response).
NetResults ==
    {[b \in Bundles |-> IF b \in Tracked THEN v[b] ELSE Undef] :
        v \in [Bundles -> {Null} \cup (Gh0 .. (Gh0 + MaxEvents))]}

Reported(r) == \A b \in Tracked : r[b] = Null \/ r[b] <= gh[b]

\* _fetchAllDownloads without its cache test: every cycle goes to the network
StartCycleAlwaysNet(kind, forced) ==
    [kind |-> kind, src |-> "net", data |-> EmptyMap]

\* if (!forceRefresh) { cached = _readCache(); if (cached) return it }
StartCycle(kind, forced) ==
    IF ~forced /\ CacheHit
    THEN [kind |-> kind, src |-> "cache", data |-> ReadCache]
    ELSE [kind |-> kind, src |-> "net", data |-> EmptyMap]

Remove(s, i) == [j \in 1 .. (Len(s) - 1) |-> IF j < i THEN s[j] ELSE s[j + 1]]

(***************************************************************************)
(* Initial state: the module-level lets, an empty localStorage, GitHub at  *)
(* Gh0 for every app.                                                      *)
(***************************************************************************)
DcInit ==
    /\ counts = [t \in Tabs |-> EmptyMap]
    /\ apps = [t \in Tabs |-> FALSE]
    /\ pollTimer = [t \in Tabs |-> 0]
    /\ postDlTimer = [t \in Tabs |-> 0]
    /\ pendingInit = [t \in Tabs |-> FALSE]
    /\ channel = [t \in Tabs |-> t \in Local]
    /\ timers = [t \in Tabs |-> {}]
    /\ inflight = [t \in Tabs |-> <<>>]
    /\ inbox = [t \in Tabs |-> <<>>]
    /\ cache = NoCache
    /\ gh = [b \in Bundles |-> Gh0]
    /\ events = 0
    /\ sinceDl = [t \in Tabs |-> 0]
    /\ fires = [t \in Tabs |-> 0]
    /\ quiet = [t \in Tabs |-> FALSE]
    /\ recorded = [t \in Tabs |-> [b \in Bundles |-> 0]]
    /\ stale = [t \in Tabs |-> FALSE]
    /\ superseded = [t \in Tabs |-> FALSE]

(***************************************************************************)
(* init(apps): the synchronous part, up to the await.                      *)
(***************************************************************************)
\* init without the _pendingInit test
InitGuardNoFlag(t, nonEmpty) == nonEmpty

\* if (!apps?.length) return; if (_pendingInit) return;
InitGuard(t, nonEmpty) == nonEmpty /\ ~pendingInit[t]

InitCall(t, nonEmpty) ==
    IF ~InitGuard(t, nonEmpty)
    THEN UNCHANGED vars
    ELSE /\ events < MaxEvents
         /\ pendingInit' = [pendingInit EXCEPT ![t] = TRUE]
         /\ apps' = [apps EXCEPT ![t] = TRUE]
         /\ inflight' = [inflight EXCEPT ![t] = Append(@, StartCycle("init", FALSE))]
         /\ events' = events + 1
         /\ quiet' = [quiet EXCEPT ![t] = FALSE]
         /\ UNCHANGED <<counts, pollTimer, postDlTimer, channel, timers, inbox,
                        cache, gh, sinceDl, fires,
                   recorded, stale, superseded, nonDcVars>>

\* _startPolling: if (_pollTimer) clearInterval(_pollTimer); setInterval(...)
StartPolling(t, ts) ==
    (IF pollTimer[t] # 0 THEN Clear(ts, pollTimer[t]) ELSE ts)
        \cup {[id |-> FreshId(t), kind |-> "poll", left |-> 0]}

\* init(apps) after the await: merge, _startPolling, broadcast, finally
InitDone(t, i) ==
    /\ i \in DOMAIN inflight[t]
    /\ inflight[t][i].kind = "init"
    /\ \E r \in NetResults \cup {inflight[t][i].data} :
          /\ IF inflight[t][i].src = "cache"
             THEN r = inflight[t][i].data /\ cache' = cache
             ELSE r \in NetResults /\ Reported(r) /\ cache' = WriteCache(r)
          /\ counts' = [counts EXCEPT ![t] = InitMerge(@, r)]
          /\ stale' = [stale EXCEPT ![t] = @ \/ Lower(counts[t], r)]
    /\ timers' = [timers EXCEPT ![t] = StartPolling(t, @)]
    /\ pollTimer' = [pollTimer EXCEPT ![t] = FreshId(t)]
    /\ inbox' = Broadcast(t, CountsUpdate(counts'[t]), inbox)
    /\ pendingInit' = [pendingInit EXCEPT ![t] = FALSE]
    /\ inflight' = [inflight EXCEPT ![t] = Remove(@, i)]
    /\ UNCHANGED <<apps, postDlTimer, channel, gh, events, sinceDl, fires, quiet,
                   recorded, superseded, nonDcVars>>

(***************************************************************************)
(* The setInterval callback of _startPolling.                              *)
(***************************************************************************)
PollFire(t) ==
    /\ Pending(t, "poll") # {}
    /\ IF ~apps[t]
       THEN UNCHANGED vars
       ELSE /\ events < MaxEvents
            /\ cache' = NoCache
            /\ inflight' = [inflight EXCEPT ![t] = Append(@, StartCycle("poll", TRUE))]
            /\ events' = events + 1
            /\ UNCHANGED <<counts, apps, pollTimer, postDlTimer, pendingInit,
                           channel, timers, inbox, gh, sinceDl, fires, quiet,
                   recorded, stale, superseded, nonDcVars>>

PollDone(t, i) ==
    /\ i \in DOMAIN inflight[t]
    /\ inflight[t][i].kind = "poll"
    /\ \E r \in NetResults :
          /\ Reported(r)
          /\ counts' = [counts EXCEPT ![t] = PollMerge(@, r)]
          /\ stale' = [stale EXCEPT ![t] = @ \/ Lower(counts[t], r)]
          /\ cache' = IF BroadcastThrows(t) THEN WriteCache(r)
                       ELSE WriteCache(counts'[t])
    /\ inbox' = Broadcast(t, CountsUpdate(counts'[t]), inbox)
    /\ inflight' = [inflight EXCEPT ![t] = Remove(@, i)]
    /\ UNCHANGED <<apps, pollTimer, postDlTimer, pendingInit, channel, timers,
                   gh, events, sinceDl, fires, quiet,
                   recorded, superseded, nonDcVars>>

(***************************************************************************)
(* recordDownload(bundleId) and its setTimeout callback.                   *)
(***************************************************************************)
\* setTimeout without the clearTimeout before it
ScheduleWithoutClear(t, ts) ==
    ts \cup {[id |-> FreshId(t), kind |-> "postDl", left |-> PostDlTicks]}

\* if (_postDlTimer) clearTimeout(_postDlTimer); _postDlTimer = setTimeout(...)
SchedulePostDl(t, ts) ==
    (IF postDlTimer[t] # 0 THEN Clear(ts, postDlTimer[t]) ELSE ts)
        \cup {[id |-> FreshId(t), kind |-> "postDl", left |-> PostDlTicks]}

\* the increment with the merge loops' default of -1 for an absent count
IncrementFromMinusOne(cur, bundleId) ==
    Put(cur, bundleId, Get(cur, bundleId, -1) + 1)

\* the optimistic local increment
Increment(cur, bundleId) == Put(cur, bundleId, Get(cur, bundleId, 0) + 1)

RecordDownload(t, bundleId) ==
    IF bundleId = ""
    THEN UNCHANGED vars
    ELSE /\ events < MaxEvents
         /\ counts' = [counts EXCEPT ![t] = Increment(@, bundleId)]
         /\ inbox' = Broadcast(t, OptimisticIncrement(bundleId), inbox)
         /\ IF BroadcastThrows(t)
            THEN UNCHANGED <<timers, postDlTimer>>
            ELSE /\ timers' = [timers EXCEPT ![t] = SchedulePostDl(t, @)]
                 /\ postDlTimer' = [postDlTimer EXCEPT ![t] = FreshId(t)]
         /\ events' = events + 1
         /\ sinceDl' = [sinceDl EXCEPT ![t] = 0]
         /\ fires' = [fires EXCEPT ![t] = 0]
         /\ quiet' = [quiet EXCEPT ![t] = FALSE]
         /\ recorded' = [recorded EXCEPT ![t][bundleId] = @ + 1]
         /\ superseded' = [superseded EXCEPT ![t] = Pending(t, "postDl") # {}]
         /\ UNCHANGED <<apps, pollTimer, pendingInit, channel, inflight, cache, gh,
                        stale, nonDcVars>>

PostDlFire(t) ==
    \E x \in Pending(t, "postDl") :
        /\ x.left = 0
        /\ timers' = [timers EXCEPT ![t] = @ \ {x}]
        /\ fires' = [fires EXCEPT ![t] = @ + 1]
        /\ IF ~apps[t]
           THEN UNCHANGED <<cache, inflight>>
           ELSE /\ cache' = NoCache
                /\ inflight' = [inflight EXCEPT
                                   ![t] = Append(@, StartCycle("postDl", TRUE))]
        /\ UNCHANGED <<counts, apps, pollTimer, postDlTimer, pendingInit, channel,
                       inbox, gh, events, sinceDl, quiet,
                   recorded, stale, superseded, nonDcVars>>

PostDlDone(t, i) ==
    /\ i \in DOMAIN inflight[t]
    /\ inflight[t][i].kind = "postDl"
    /\ \E r \in NetResults :
          /\ Reported(r)
          /\ counts' = [counts EXCEPT ![t] = PostDlMerge(@, r)]
          /\ stale' = [stale EXCEPT ![t] = @ \/ Lower(counts[t], r)]
    /\ cache' = WriteCache(counts'[t])
    /\ inbox' = Broadcast(t, CountsUpdate(counts'[t]), inbox)
    /\ inflight' = [inflight EXCEPT ![t] = Remove(@, i)]
    /\ UNCHANGED <<apps, pollTimer, postDlTimer, pendingInit, channel, timers,
                   gh, events, sinceDl, fires, quiet,
                   recorded, superseded, nonDcVars>>

(***************************************************************************)
(* destroy().                                                              *)
(***************************************************************************)
DestroyTimers(t, ts) ==
    Clear(Clear(ts, pollTimer[t]), postDlTimer[t])

Destroy(t) ==
    /\ timers' = [timers EXCEPT ![t] = DestroyTimers(t, @)]
    /\ pollTimer' = [pollTimer EXCEPT ![t] = 0]
    /\ postDlTimer' = [postDlTimer EXCEPT ![t] = 0]
    /\ channel' = [channel EXCEPT ![t] = FALSE]
    /\ inbox' = [inbox EXCEPT ![t] = <<>>]
    /\ quiet' = [quiet EXCEPT ![t] = TRUE]
    /\ UNCHANGED <<counts, apps, pendingInit, inflight, cache, gh, events,
                   sinceDl, fires,
                   recorded, stale, superseded, nonDcVars>>

(***************************************************************************)
(* The environment: message delivery, the clock, GitHub, the cache's TTL.  *)
(***************************************************************************)
\* what a tab running this code can post: a snapshot of its counts (never
\* null, see the merge loops) or the increment of one app
PeerMessages ==
    {CountsUpdate(c) : c \in [Bundles -> {Undef} \cup (Gh0 .. (Gh0 + 1))]}
        \cup {OptimisticIncrement(b) : b \in Bundles}

\* a message of another tab arrives and _channel.onmessage handles it
Receive(t, m) ==
    /\ channel[t]
    /\ events < MaxEvents
    /\ counts' = [counts EXCEPT ![t] = OnMessage(@, m)]
    /\ events' = events + 1
    /\ UNCHANGED <<apps, pollTimer, postDlTimer, pendingInit, channel, timers,
                   inflight, inbox, cache, gh, sinceDl, fires, quiet,
                   recorded, stale, superseded, nonDcVars>>

Min(x, y) == IF x < y THEN x ELSE y

Tick ==
    /\ \E t \in Tabs : \E x \in timers[t] : x.left > 0
    /\ timers' = [t \in Tabs |->
                    {[x EXCEPT !.left = IF @ > 0 THEN @ - 1 ELSE 0] : x \in timers[t]}]
    /\ sinceDl' = [t \in Tabs |-> Min(PostDlTicks, sinceDl[t] + 1)]
    /\ UNCHANGED <<counts, apps, pollTimer, postDlTimer, pendingInit, channel,
                   inflight, inbox, cache, gh, events, fires, quiet,
                   recorded, stale, superseded, nonDcVars>>

GhBump(b) ==
    /\ events < MaxEvents
    /\ gh' = [gh EXCEPT ![b] = @ + 1]
    /\ events' = events + 1
    /\ UNCHANGED <<counts, apps, pollTimer, postDlTimer, pendingInit, channel,
                   timers, inflight, inbox, cache, sinceDl, fires, quiet,
                   recorded, stale, superseded, nonDcVars>>

CacheExpire ==
    /\ CacheHit
    /\ cache' = [cache EXCEPT !.fresh = FALSE]
    /\ UNCHANGED <<counts, apps, pollTimer, postDlTimer, pendingInit, channel,
                   timers, inflight, inbox, gh, events, sinceDl, fires, quiet,
                   recorded, stale, superseded, nonDcVars>>

DcNext ==
    \/ \E t \in Local : \E nonEmpty \in BOOLEAN : InitCall(t, nonEmpty)
    \/ \E t \in Local : \E i \in 1 .. 3 : InitDone(t, i)
    \/ \E t \in Local : PollFire(t)
    \/ \E t \in Local : \E i \in 1 .. 3 : PollDone(t, i)
    \/ \E t \in Local : \E b \in Bundles \cup {""} : RecordDownload(t, b)
    \/ \E t \in Local : PostDlFire(t)
    \/ \E t \in Local : \E i \in 1 .. 3 : PostDlDone(t, i)
    \/ \E t \in Local : Destroy(t)
    \/ \E t \in Local : \E m \in PeerMessages : Receive(t, m)
    \/ Tick
    \/ \E b \in Tracked : GhBump(b)
    \/ CacheExpire


(***************************************************************************)
(* The service worker (sw.js).                                             *)
(*                                                                         *)
(* SpecSW    one worker version from its install event on: pre-caching,    *)
(*           the page's messages, activation with the bucket cleanup, and  *)
(*           the fetch handlers with their cache writes and trims.         *)
(***************************************************************************)
\* fetch events handled in one run
MaxRequests == 2
\* MAX_SHELL_ITEMS (100), scaled to the handful of URLs of the model
MAX_SHELL_ITEMS == 3

\* bucket names, character by character (startsWith reads them)
\* 'minis-repo-cache-ec12bc8'
CACHE_NAME ==
    <<"m", "i", "n", "i", "s", "-", "r", "e", "p", "o", "-", "c", "a", "c",
      "h", "e", "-", "e", "c", "1", "2", "b", "c", "8">>

\* 'minis-images-v1'
IMAGE_CACHE ==
    <<"m", "i", "n", "i", "s", "-", "i", "m", "a", "g", "e", "s", "-", "v",
      "1">>

\* 'minis-data-v1'
DATA_CACHE ==
    <<"m", "i", "n", "i", "s", "-", "d", "a", "t", "a", "-", "v", "1">>

\* the shell bucket of an earlier deploy
OldShellCache ==
    <<"m", "i", "n", "i", "s", "-", "r", "e", "p", "o", "-", "c", "a", "c",
      "h", "e", "-", "8", "b", "f", "a", "4", "5", "0">>

\* a bucket of another site of the same origin
ForeignCache ==
    <<"n", "o", "t", "e", "s", "-", "c", "a", "c", "h", "e", "-", "v", "2">>

\* the prefix deleteOldCaches tests
OwnPrefix ==
    <<"m", "i", "n", "i", "s", "-">>

BucketNames == {CACHE_NAME, IMAGE_CACHE, DATA_CACHE, OldShellCache, ForeignCache}

\* CRITICAL_ASSETS as sw.js lists them (the first two of the eight), and the
\* request URL each resolves to against the worker's scope
CRITICAL_ASSETS == {"./", "./index.html"}

Resolve(rel) == IF rel = "./" THEN "/" ELSE "/index.html"

\* the request URLs of the model, all same-origin and none .json or image
Urls == {"/", "/page", "/app.css"}

\* the same-origin URLs ending in .json, and the app icon
JsonUrls == {"/mini.json", "/manifest.json"}

IconUrl == "/apps/icon.png"

\* the releases endpoint of two repositories
GhUrl1 == "https://api.github.com/repos/o/r1/releases?per_page=100"

GhUrls ==
    {GhUrl1, "https://api.github.com/repos/o/r2/releases?per_page=100"}

\* a release asset image and a script of another origin
RemoteImage == "https://objects.githubusercontent.com/shot.png"

RemoteScript == "https://cdn.example/lib.js"

\* a same-origin .json file asked for with a query string
JsonQueryUrl == "/manifest.json?v=2"

\* a .json file of another origin
RemoteJson == "https://cdn.example/data.json"

SameOrigin(url) ==
    url \in Urls \cup JsonUrls \cup {IconUrl, "/index.html", JsonQueryUrl}

\* url.hostname === 'api.github.com' && url.pathname.includes('/releases')
IsGithubReleases(url) == url \in GhUrls

\* url.pathname.endsWith('mini.json')
EndsWithMiniJson(url) == url = "/mini.json"

\* IMAGE_PATTERNS.some(p => p.test(url.href))
MatchesImagePatterns(url) == url \in {IconUrl, RemoteImage}

\* the limits of the image bucket and of the releases responses, scaled as
\* MAX_SHELL_ITEMS is
MAX_IMAGE_ITEMS == 1

MAX_GH_ITEMS == 1

\* the maxItems argument cachePut is called with for a bucket
MaxItems(name) == IF name = IMAGE_CACHE THEN MAX_IMAGE_ITEMS ELSE MAX_SHELL_ITEMS

MetaIdle ==
    /\ stamps = [u \in GhUrls |-> "none"]
    /\ stored = {}

(***************************************************************************)
(* Cache API helpers.                                                      *)
(***************************************************************************)
Range(q) == {q[i] : i \in DOMAIN q}

Without(q, url) == SelectSeq(q, LAMBDA k : k # url)

\* cache.put: the entry of the same URL is replaced and the new one is last
PutKey(q, url) == Append(Without(q, url), url)

\* caches.open(name) then cache.put(url)
CachePut(bk, name, url) ==
    [bk EXCEPT ![name] = [exists |-> TRUE, keys |-> PutKey(@.keys, url)]]

\* cache.delete(url)
CacheDelete(bk, name, url) == [bk EXCEPT ![name].keys = Without(@, url)]

\* caches.match(url): any bucket of the origin holds the URL
Match(bk, url) == \E n \in BucketNames : bk[n].exists /\ url \in Range(bk[n].keys)

\* what the buckets hold before this version installs
InitialKeys(n) ==
    IF n = DATA_CACHE THEN <<"/mini.json">>
    ELSE IF n = OldShellCache THEN <<"/index.html">>
    ELSE <<"/apps/icon.png">>

NoRequestTrim == [pc |-> "none", keys |-> <<>>, excess |-> 0, evicted |-> 0, i |-> 0]

SwInit ==
    /\ MetaIdle
    /\ swPhase = "parsed"
    /\ skipCalled = FALSE
    /\ oldActive \in BOOLEAN
    /\ \E present \in SUBSET (BucketNames \ {CACHE_NAME}) :
          buckets = [n \in BucketNames |->
                        IF n \in present
                        THEN [exists |-> TRUE, keys |-> InitialKeys(n)]
                        ELSE [exists |-> FALSE, keys |-> <<>>]]
    /\ precache = {}
    /\ cleanup = [pc |-> "idle", lock |-> "none", todo |-> {}]
    /\ \E sup \in BOOLEAN :
          preload = [support |-> sup, enabled |-> FALSE, settled |-> FALSE]
    /\ reqs = <<>>
    /\ skipMsg = FALSE
    /\ precached = {}
    /\ before = buckets

(***************************************************************************)
(* install, message, activate.                                             *)
(***************************************************************************)
\* the install listener: caches.open(CACHE_NAME), one cache.add per critical
\* asset, and self.skipWaiting()
InstallEvent ==
    /\ swPhase = "parsed"
    /\ swPhase' = "installing"
    /\ buckets' = [buckets EXCEPT ![CACHE_NAME].exists = TRUE]
    /\ precache' = CRITICAL_ASSETS
    /\ skipCalled' = TRUE
    /\ UNCHANGED <<oldActive, cleanup, preload, reqs, skipMsg, precached, before,
                   nonSwState>>

\* cache.add(url) settles: stored, or failed and only warned about
PrecacheAdd(rel, ok) ==
    /\ swPhase = "installing"
    /\ rel \in precache
    /\ precache' = precache \ {rel}
    /\ IF ok
       THEN /\ buckets' = CachePut(buckets, CACHE_NAME, Resolve(rel))
            /\ precached' = precached \cup {Resolve(rel)}
       ELSE UNCHANGED <<buckets, precached>>
    /\ UNCHANGED <<swPhase, skipCalled, oldActive, cleanup, preload, reqs,
                   skipMsg, before, nonSwState>>

\* Promise.allSettled of the adds: the install step is complete
InstallDone ==
    /\ swPhase = "installing"
    /\ precache = {}
    /\ swPhase' = "installed"
    /\ UNCHANGED <<skipCalled, oldActive, buckets, precache, cleanup, preload,
                   reqs, skipMsg, precached, before, nonSwState>>

\* the message listener; action "" is a message without data
PageMessage(action) ==
    /\ swPhase # "parsed"
    /\ IF action = "skipWaiting"
       THEN skipCalled' = TRUE /\ skipMsg' = TRUE
       ELSE UNCHANGED <<skipCalled, skipMsg>>
    /\ UNCHANGED <<swPhase, oldActive, buckets, precache, cleanup, preload, reqs,
                   precached, before, nonSwState>>

\* the pages the earlier version controls are closed
OldGone ==
    /\ oldActive
    /\ oldActive' = FALSE
    /\ UNCHANGED <<swPhase, skipCalled, buckets, precache, cleanup, preload, reqs,
                   skipMsg, precached, before, nonSwState>>

\* the browser activates the waiting worker; the activate listener starts
\* cleanOldCaches and enableNavigationPreload
Activate ==
    /\ swPhase = "installed"
    /\ skipCalled \/ ~oldActive
    /\ swPhase' = "activating"
    /\ cleanup' = [cleanup EXCEPT !.pc = "lock"]
    /\ preload' = [preload EXCEPT !.settled = ~preload.support]
    /\ UNCHANGED <<skipCalled, oldActive, buckets, precache, reqs, skipMsg,
                   precached, before, nonSwState>>

\* navigationPreload.enable() settles; a failure is only warned about
PreloadEnable(ok) ==
    /\ swPhase = "activating"
    /\ ~preload.settled
    /\ preload' = [preload EXCEPT !.settled = TRUE, !.enabled = ok]
    /\ UNCHANGED <<swPhase, skipCalled, oldActive, buckets, precache, cleanup,
                   reqs, skipMsg, precached, before, nonSwState>>

(***************************************************************************)
(* cleanOldCaches and deleteOldCaches.                                     *)
(***************************************************************************)
StartsWith(q, prefix) ==
    Len(q) >= Len(prefix) /\ SubSeq(q, 1, Len(prefix)) = prefix

managedCaches == {CACHE_NAME, IMAGE_CACHE, DATA_CACHE}

\* the filter without the prefix test
ToDeleteAnyName(keys) == {key \in keys : key \notin managedCaches}

\* keys.filter(key => !managedCaches.has(key) && key.startsWith('minis-'))
ToDelete(keys) ==
    {key \in keys : key \notin managedCaches /\ StartsWith(key, OwnPrefix)}

\* navigator.locks is absent, or the request is granted, aborted after 5 s, or
\* fails otherwise: deleteOldCaches runs in each case
CleanLock(outcome) ==
    /\ cleanup.pc = "lock"
    /\ cleanup' = [cleanup EXCEPT !.pc = "keys", !.lock = outcome]
    /\ UNCHANGED <<swPhase, skipCalled, oldActive, buckets, precache, preload,
                   reqs, skipMsg, precached, before, nonSwState>>

\* const keys = await caches.keys(), filtered
CleanKeys ==
    /\ cleanup.pc = "keys"
    /\ cleanup' = [cleanup EXCEPT
                      !.pc = "deleting",
                      !.todo = ToDelete({n \in BucketNames : buckets[n].exists})]
    /\ before' = buckets
    /\ UNCHANGED <<swPhase, skipCalled, oldActive, buckets, precache, preload,
                   reqs, skipMsg, precached, nonSwState>>

\* one caches.delete(key) of the Promise.all
CleanDelete(key) ==
    /\ cleanup.pc = "deleting"
    /\ key \in cleanup.todo
    /\ buckets' = [buckets EXCEPT ![key] = [exists |-> FALSE, keys |-> <<>>]]
    /\ cleanup' = [cleanup EXCEPT !.todo = @ \ {key}]
    /\ UNCHANGED <<swPhase, skipCalled, oldActive, precache, preload, reqs,
                   skipMsg, precached, before, nonSwState>>

CleanDone ==
    /\ cleanup.pc = "deleting"
    /\ cleanup.todo = {}
    /\ cleanup' = [cleanup EXCEPT !.pc = "done"]
    /\ UNCHANGED <<swPhase, skipCalled, oldActive, buckets, precache, preload,
                   reqs, skipMsg, precached, before, nonSwState>>

\* Promise.all([...]).then(() => self.clients.claim())
Claim ==
    /\ swPhase = "activating"
    /\ cleanup.pc = "done"
    /\ preload.settled
    /\ swPhase' = "activated"
    /\ UNCHANGED <<skipCalled, oldActive, buckets, precache, cleanup, preload,
                   reqs, skipMsg, precached, before, nonSwState>>

(***************************************************************************)
(* fetch: routing, handleNavigation, networkFirst, cacheFirst.             *)
(***************************************************************************)
\* url.pathname.endsWith('.json')
EndsWithJson(url) == url \in JsonUrls \cup {RemoteJson, JsonQueryUrl}

\* request.url.endsWith('.json'): the whole URL, query string included
UrlEndsWithJson(url) == url \in JsonUrls \cup {RemoteJson}

IsImage(url) == url \in {IconUrl}

\* the response promised by event.preloadResponse for a navigation
PreloadKinds ==
    IF ~preload.support THEN {"absent"}
    ELSE IF ~preload.enabled THEN {"undefined"}
    ELSE {"response", "status", "reject"}

\* the listener with the same-origin test moved ahead of the image test
RouteSameOriginEarly(url, mode) ==
    IF mode = "navigate" THEN "handleNavigation"
    ELSE IF IsGithubReleases(url) THEN "staleWhileRevalidateGitHub"
    ELSE IF EndsWithMiniJson(url) THEN "staleWhileRevalidateData"
    ELSE IF EndsWithJson(url) THEN "networkFirst"
    ELSE IF SameOrigin(url) THEN "cacheFirst"
    ELSE IF MatchesImagePatterns(url) THEN "staleWhileRevalidateImage"
    ELSE "none"

\* the tests of the fetch listener, in its order
Route(url, mode) ==
    IF mode = "navigate" THEN "handleNavigation"
    ELSE IF IsGithubReleases(url) THEN "staleWhileRevalidateGitHub"
    ELSE IF EndsWithMiniJson(url) THEN "staleWhileRevalidateData"
    ELSE IF EndsWithJson(url) THEN "networkFirst"
    ELSE IF MatchesImagePatterns(url) THEN "staleWhileRevalidateImage"
    ELSE IF SameOrigin(url) THEN "cacheFirst"
    ELSE "none"

\* where a handler starts; a request no test takes gets no respondWith
FirstStep(handler) ==
    CASE handler = "handleNavigation"           -> "preload"
      [] handler = "staleWhileRevalidateGitHub" -> "ghmatch"
      [] handler = "staleWhileRevalidateData"   -> "swrmatch"
      [] handler = "networkFirst"               -> "fetch"
      [] handler = "staleWhileRevalidateImage"  -> "swrmatch"
      [] handler = "cacheFirst"                 -> "cfmatch"
      [] OTHER                                  -> "done"

\* the bucket a handler writes to
BucketOf(handler) ==
    CASE handler \in {"staleWhileRevalidateGitHub", "staleWhileRevalidateData"}
                                               -> DATA_CACHE
      [] handler = "staleWhileRevalidateImage" -> IMAGE_CACHE
      [] OTHER                                 -> CACHE_NAME

\* event.request.destination: the page's img and script elements ask in
\* no-cors mode, its fetch calls do not
Destination(url, mode) ==
    IF mode # "no-cors" THEN ""
    ELSE IF MatchesImagePatterns(url) THEN "image"
    ELSE "script"

NewRequest(url, mode, pre) ==
    [url |-> url, mode |-> mode, pre |-> pre, method |-> "GET",
     dest |-> Destination(url, mode), net |-> "none",
     handler |-> Route(url, mode),
     pc |-> FirstStep(Route(url, mode)),
     resp |-> IF Route(url, mode) = "none" THEN "passthrough" ELSE "none",
     failed |-> FALSE, shellCached |-> FALSE,
     bg |-> "none", got |-> "none", ts |-> "none",
     put |-> "none", trim |-> NoRequestTrim]

\* the listener without its method test
HandledAny(method) == TRUE

\* if (event.request.method !== 'GET') return
Handled(method) == method = "GET"

\* the fetch listener
FetchEvent(url, method, mode, pre) ==
    /\ swPhase = "activated"
    /\ Len(reqs) < MaxRequests
    /\ IF ~Handled(method)
       THEN UNCHANGED reqs
       ELSE reqs' = Append(reqs,
                           [NewRequest(url, mode,
                                       IF mode = "navigate" THEN pre ELSE "absent")
                               EXCEPT !.method = method])
    /\ UNCHANGED <<swPhase, skipCalled, oldActive, buckets, precache, cleanup,
                   preload, skipMsg, precached, before, nonSwState>>

Finish(r, resp) == [r EXCEPT !.pc = "done", !.resp = resp]

\* handleNavigation up to the return of the preload response, the call of
\* networkFirst, or the catch
NavPreload(i) ==
    /\ i \in DOMAIN reqs
    /\ reqs[i].pc = "preload"
    /\ reqs' = [reqs EXCEPT ![i] =
                  CASE reqs[i].pre \in {"response", "status"} ->
                         [Finish(reqs[i], "preload") EXCEPT
                             !.put = "pending", !.got = "basic",
                             !.net = IF reqs[i].pre = "status" THEN "status" ELSE "ok"]
                    [] reqs[i].pre = "reject"   -> [reqs[i] EXCEPT !.pc = "shell"]
                    [] OTHER              -> [reqs[i] EXCEPT !.pc = "fetch"]]
    /\ UNCHANGED <<swPhase, skipCalled, oldActive, buckets, precache, cleanup,
                   preload, skipMsg, precached, before, nonSwState>>

\* the catch of handleNavigation: caches.match('./index.html'), else the page
NavShell(i) ==
    /\ i \in DOMAIN reqs
    /\ reqs[i].pc = "shell"
    /\ LET hit == Match(buckets, Resolve("./index.html"))
       IN  reqs' = [reqs EXCEPT ![i] =
                      [Finish(reqs[i], IF hit THEN "shell" ELSE "offlinePage") EXCEPT
                          !.failed = ~Match(buckets, reqs[i].url),
                          !.shellCached = hit]]
    /\ UNCHANGED <<swPhase, skipCalled, oldActive, buckets, precache, cleanup,
                   preload, skipMsg, precached, before, nonSwState>>

\* networkFirst: await fetch(request)
NetFirstFetch(i, outcome) ==
    /\ i \in DOMAIN reqs
    /\ reqs[i].pc = "fetch"
    /\ reqs' = [reqs EXCEPT ![i] =
                  [(CASE outcome = "ok"     -> [Finish(reqs[i], "network") EXCEPT !.put = "pending", !.got = "basic"]
                      [] outcome = "status" -> Finish(reqs[i], "status")
                      [] OTHER              -> [reqs[i] EXCEPT !.pc = "match"])
                   EXCEPT !.net = outcome]]
    /\ UNCHANGED <<swPhase, skipCalled, oldActive, buckets, precache, cleanup,
                   preload, skipMsg, precached, before, nonSwState>>

\* the catch of networkFirst: caches.match(request), else a 503 body
NetFirstMatch(i) ==
    /\ i \in DOMAIN reqs
    /\ reqs[i].pc = "match"
    /\ LET hit == Match(buckets, reqs[i].url)
       IN  reqs' = [reqs EXCEPT ![i] =
                      [Finish(reqs[i], IF hit THEN "cached"
                                 ELSE IF UrlEndsWithJson(reqs[i].url) THEN "offlineJson"
                                 ELSE "offlineText") EXCEPT
                          !.failed = ~hit,
                          !.shellCached = Match(buckets, Resolve("./index.html"))]]
    /\ UNCHANGED <<swPhase, skipCalled, oldActive, buckets, precache, cleanup,
                   preload, skipMsg, precached, before, nonSwState>>

\* cacheFirst: caches.match(request)
CacheFirstMatch(i) ==
    /\ i \in DOMAIN reqs
    /\ reqs[i].pc = "cfmatch"
    /\ reqs' = [reqs EXCEPT ![i] =
                  IF Match(buckets, reqs[i].url) THEN Finish(reqs[i], "cached")
                  ELSE [reqs[i] EXCEPT !.pc = "cffetch"]]
    /\ UNCHANGED <<swPhase, skipCalled, oldActive, buckets, precache, cleanup,
                   preload, skipMsg, precached, before, nonSwState>>

\* cacheFirst: await fetch(request) and its catch
CacheFirstFetch(i, outcome) ==
    /\ i \in DOMAIN reqs
    /\ reqs[i].pc = "cffetch"
    /\ reqs' = [reqs EXCEPT ![i] = [(
                  CASE outcome = "ok"     -> [Finish(reqs[i], "network") EXCEPT !.put = "pending", !.got = "basic"]
                    [] outcome = "status" -> Finish(reqs[i], "status")
                    [] OTHER ->
                         IF reqs[i].mode = "navigate"
                         THEN Finish(reqs[i], IF Match(buckets, Resolve("./index.html"))
                                        THEN "shell" ELSE "offlinePage")
                         ELSE IF IsImage(reqs[i].url) THEN Finish(reqs[i], "png")
                         ELSE Finish(reqs[i], "offlineText")) EXCEPT !.net = outcome]]
    /\ UNCHANGED <<swPhase, skipCalled, oldActive, buckets, precache, cleanup,
                   preload, skipMsg, precached, before, nonSwState>>

(***************************************************************************)
(* cachePut and trimCache on the shell bucket.                             *)
(***************************************************************************)
\* the skipUrls argument of the trimCache call in cachePut: none is passed,
\* so the default new Set() applies
SkipUrls == {}

\* cachePut: caches.open, cache.put, then trimCache is started; the data
\* handlers call cache.put themselves and start no trim
PutDone(i) ==
    /\ i \in DOMAIN reqs
    /\ reqs[i].put = "pending"
    /\ LET name == BucketOf(reqs[i].handler)
       IN  /\ buckets' = CachePut(buckets, name, reqs[i].url)
           /\ reqs' = [reqs EXCEPT ![i].put = "done",
                                   ![i].trim.pc = IF name = DATA_CACHE THEN "none"
                                                  ELSE "keys"]
           /\ stamps' = IF reqs[i].url \in GhUrls
                        THEN [stamps EXCEPT ![reqs[i].url] = "fresh"]
                        ELSE stamps
           /\ stored' = stored \cup {[bucket |-> name, url |-> reqs[i].url,
                                      method |-> reqs[i].method,
                                      dest |-> reqs[i].dest,
                                      type |-> reqs[i].got]}
    /\ UNCHANGED <<swPhase, skipCalled, oldActive, precache, cleanup, preload,
                   skipMsg, precached, before, nonSwVars>>

\* the excess counted one too high
ExcessOneMore(keys, maxItems) == Len(keys) - maxItems + 1

\* const excess = keys.length - maxItems
Excess(keys, maxItems) == Len(keys) - maxItems

\* trimCache: const keys = await cache.keys(); if (keys.length <= maxItems) return
TrimKeys(i) ==
    /\ i \in DOMAIN reqs
    /\ reqs[i].trim.pc = "keys"
    /\ LET name == BucketOf(reqs[i].handler)
           keys == buckets[name].keys
       IN  /\ reqs' = [reqs EXCEPT ![i].trim =
                         IF Len(keys) <= MaxItems(name)
                         THEN [NoRequestTrim EXCEPT !.pc = "done"]
                         ELSE [pc |-> "loop", keys |-> keys,
                               excess |-> Excess(keys, MaxItems(name)),
                               evicted |-> 0, i |-> 1]]
           /\ buckets' = [buckets EXCEPT ![name].exists = TRUE]
    /\ UNCHANGED <<swPhase, skipCalled, oldActive, precache, cleanup, preload,
                   skipMsg, precached, before, nonSwState>>

\* one iteration of for (const request of keys)
TrimStep(i) ==
    /\ i \in DOMAIN reqs
    /\ reqs[i].trim.pc = "loop"
    /\ LET tr == reqs[i].trim
           name == BucketOf(reqs[i].handler)
       IN  IF tr.i > Len(tr.keys) \/ tr.evicted >= tr.excess
           THEN /\ reqs' = [reqs EXCEPT ![i].trim = [NoRequestTrim EXCEPT !.pc = "done"]]
                /\ UNCHANGED buckets
           ELSE IF tr.keys[tr.i] \in SkipUrls
           THEN /\ reqs' = [reqs EXCEPT ![i].trim.i = @ + 1]
                /\ UNCHANGED buckets
           ELSE /\ buckets' = CacheDelete(buckets, name, tr.keys[tr.i])
                /\ reqs' = [reqs EXCEPT ![i].trim.i = @ + 1,
                                        ![i].trim.evicted = @ + 1]
    /\ UNCHANGED <<swPhase, skipCalled, oldActive, precache, cleanup, preload,
                   skipMsg, precached, before, nonSwState>>

(***************************************************************************)
(* The stale-while-revalidate handlers: GitHub releases, mini.json, images.*)
(***************************************************************************)
\* what fetch can settle with: a request of another origin made in no-cors
\* mode gets an opaque response (status 0) or a rejection
NetOutcomes(r) ==
    IF ~SameOrigin(r.url) /\ r.mode = "no-cors" THEN {"opaque", "reject"}
    ELSE {"ok", "status", "reject"}

\* response.ok
ResponseOk(outcome) == outcome = "ok"

\* staleWhileRevalidateGitHub with an entry that is not fresh, were it to wait
\* for the network as it does without an entry
GhServeFreshOnly(r, cached, cachedFresh) ==
    IF cached /\ cachedFresh
    THEN [Finish(r, "cached") EXCEPT !.bg = "pending"]
    ELSE [r EXCEPT !.pc = "swrfetch"]

\* staleWhileRevalidateGitHub as a plain cache-first handler: an entry is
\* served and no fetchAndCache is started
GhServeNoRefresh(r, cached, cachedFresh) ==
    IF cached THEN Finish(r, "cached")
    ELSE [r EXCEPT !.pc = "swrfetch"]

\* the handler going to the network whatever the bucket holds
GhServeNetworkFirst(r, cached, cachedFresh) == [r EXCEPT !.pc = "swrfetch"]

\* staleWhileRevalidateGitHub after the TTL test: the three cases
GhServe(r, cached, cachedFresh) ==
    IF cached /\ cachedFresh
    THEN [Finish(r, "cached") EXCEPT !.bg = "pending"]
    ELSE IF cached /\ ~cachedFresh
    THEN [Finish(r, "cached") EXCEPT !.bg = "pending"]
    ELSE [r EXCEPT !.pc = "swrfetch"]

\* staleWhileRevalidateGitHub: caches.open(DATA_CACHE), cache.match, the
\* x-sw-cached-at test
GhMatch(i) ==
    /\ i \in DOMAIN reqs
    /\ reqs[i].pc = "ghmatch"
    /\ LET url == reqs[i].url
           cached == url \in Range(buckets[DATA_CACHE].keys)
           cachedFresh == cached /\ stamps[url] = "fresh"
       IN  reqs' = [reqs EXCEPT ![i] =
                      GhServe([reqs[i] EXCEPT !.ts = stamps[url]], cached, cachedFresh)]
    /\ buckets' = [buckets EXCEPT ![DATA_CACHE].exists = TRUE]
    /\ UNCHANGED <<swPhase, skipCalled, oldActive, precache, cleanup, preload,
                   skipMsg, precached, before, nonSwState>>

\* staleWhileRevalidateData and staleWhileRevalidateImage: caches.open,
\* cache.match in the handler's bucket, the fetch is started either way
SwrMatch(i) ==
    /\ i \in DOMAIN reqs
    /\ reqs[i].pc = "swrmatch"
    /\ LET name == BucketOf(reqs[i].handler)
       IN  /\ reqs' = [reqs EXCEPT ![i] =
                         IF reqs[i].url \in Range(buckets[name].keys)
                         THEN [Finish(reqs[i], "cached") EXCEPT !.bg = "pending"]
                         ELSE [reqs[i] EXCEPT !.pc = "swrfetch"]]
           /\ buckets' = [buckets EXCEPT ![name].exists = TRUE]
    /\ UNCHANGED <<swPhase, skipCalled, oldActive, precache, cleanup, preload,
                   skipMsg, precached, before, nonSwState>>

\* the handlers answering a rejected fetch as cacheFirst does
FallbackError(handler) == "offlineText"

\* what a handler answers when it has no entry and the fetch rejects
Fallback(handler) ==
    CASE handler = "staleWhileRevalidateGitHub" -> "ghStub"
      [] handler = "staleWhileRevalidateData"   -> "offlineData"
      [] handler = "staleWhileRevalidateImage"  -> "png"

\* no entry: the handler awaits its fetch
SwrFetch(i, outcome) ==
    /\ i \in DOMAIN reqs
    /\ reqs[i].pc = "swrfetch"
    /\ outcome \in NetOutcomes(reqs[i])
    /\ reqs' = [reqs EXCEPT ![i] =
                  [(IF outcome = "reject"
                    THEN Finish(reqs[i], Fallback(reqs[i].handler))
                    ELSE IF ResponseOk(outcome)
                    THEN [Finish(reqs[i], "network") EXCEPT !.put = "pending",
                                                             !.got = "basic"]
                    ELSE Finish(reqs[i], outcome)) EXCEPT !.net = outcome]]
    /\ UNCHANGED <<swPhase, skipCalled, oldActive, buckets, precache, cleanup,
                   preload, skipMsg, precached, before, nonSwState>>

\* an entry was served: the fetch settles in the background
SwrRefresh(i, outcome) ==
    /\ i \in DOMAIN reqs
    /\ reqs[i].bg = "pending"
    /\ outcome \in NetOutcomes(reqs[i])
    /\ reqs' = [reqs EXCEPT ![i] =
                  IF ResponseOk(outcome)
                  THEN [reqs[i] EXCEPT !.bg = "done", !.net = outcome,
                                       !.put = "pending", !.got = "basic"]
                  ELSE [reqs[i] EXCEPT !.bg = "done", !.net = outcome]]
    /\ UNCHANGED <<swPhase, skipCalled, oldActive, buckets, precache, cleanup,
                   preload, skipMsg, precached, before, nonSwState>>

\* GH_CACHE_TTL_MS pass since an entry was stamped
StampExpire(url) ==
    /\ stamps[url] = "fresh"
    /\ stamps' = [stamps EXCEPT ![url] = "stale"]
    /\ UNCHANGED <<swVars, stored, nonSwVars>>

\* what the page asks for and how: its fetch calls in cors mode, its img and
\* script elements in no-cors mode, an img with crossorigin in cors mode
PageRequests ==
    {<<url, "cors">> : url \in {"/mini.json", JsonQueryUrl, RemoteImage} \cup GhUrls}
       \cup {<<url, "no-cors">> : url \in {IconUrl, RemoteImage, RemoteScript}}

HandlersNext ==
    \/ \E rq \in PageRequests : \E method \in {"GET", "POST"} :
          FetchEvent(rq[1], method, rq[2], "absent")
    \/ \E i \in 1 .. MaxRequests :
          \/ GhMatch(i)
          \/ SwrMatch(i)
          \/ \E outcome \in {"ok", "status", "opaque", "reject"} : SwrFetch(i, outcome)
          \/ \E outcome \in {"ok", "status", "opaque", "reject"} : SwrRefresh(i, outcome)
          \/ \E outcome \in {"ok", "status", "reject"} : NetFirstFetch(i, outcome)
          \/ NetFirstMatch(i)
          \/ PutDone(i)
          \/ TrimKeys(i)
          \/ TrimStep(i)
    \/ \E url \in GhUrls : StampExpire(url)

\* the worker activated, on an origin an earlier visit may have left entries
\* on: the first releases URL (stamped, or not, by whatever wrote it),
\* mini.json, the app icon
HandlersInit ==
    /\ swPhase = "activated"
    /\ skipCalled = TRUE
    /\ oldActive = FALSE
    /\ precache = {}
    /\ precached = {"/", "/index.html"}
    /\ cleanup = [pc |-> "done", lock |-> "absent", todo |-> {}]
    /\ preload = [support |-> FALSE, enabled |-> FALSE, settled |-> TRUE]
    /\ reqs = <<>>
    /\ skipMsg = FALSE
    /\ stored = {}
    /\ \E ts \in {"none", "fresh", "stale", "missing"} : \E data, icon \in BOOLEAN :
          LET gh1 == GhUrl1
          IN  /\ stamps = [u \in GhUrls |-> IF u = gh1 THEN ts ELSE "none"]
              /\ buckets =
                    [n \in BucketNames |->
                        IF n = CACHE_NAME
                        THEN [exists |-> TRUE, keys |-> <<"/", "/index.html">>]
                        ELSE IF n = DATA_CACHE
                        THEN [exists |-> ts # "none" \/ data,
                              keys |-> (IF ts # "none" THEN <<gh1>> ELSE <<>>)
                                       \o (IF data THEN <<"/mini.json">> ELSE <<>>)]
                        ELSE IF n = IMAGE_CACHE
                        THEN [exists |-> icon,
                              keys |-> IF icon THEN <<IconUrl>> ELSE <<>>]
                        ELSE [exists |-> FALSE, keys |-> <<>>]]
    /\ before = buckets

SwNext ==
    \/ InstallEvent
    \/ \E rel \in CRITICAL_ASSETS : \E ok \in BOOLEAN : PrecacheAdd(rel, ok)
    \/ InstallDone
    \/ \E action \in {"skipWaiting", "checkForUpdate", ""} : PageMessage(action)
    \/ OldGone
    \/ Activate
    \/ \E ok \in BOOLEAN : PreloadEnable(ok)
    \/ \E outcome \in {"absent", "granted", "abort", "error"} : CleanLock(outcome)
    \/ CleanKeys
    \/ \E key \in BucketNames : CleanDelete(key)
    \/ CleanDone
    \/ Claim

FetchNext ==
    \/ \E url \in Urls : \E method \in {"GET", "POST"} :
          \E mode \in {"navigate", "no-cors"} : \E pre \in PreloadKinds :
             FetchEvent(url, method, mode, pre)
    \/ \E i \in 1 .. MaxRequests :
          \/ NavPreload(i)
          \/ NavShell(i)
          \/ \E outcome \in {"ok", "status", "reject"} : NetFirstFetch(i, outcome)
          \/ NetFirstMatch(i)
          \/ CacheFirstMatch(i)
          \/ \E outcome \in {"ok", "status", "reject"} : CacheFirstFetch(i, outcome)
          \/ PutDone(i)
          \/ TrimKeys(i)
          \/ TrimStep(i)

\* the shell bucket as an install leaves it: the critical assets whose
\* cache.add succeeded, in the order the adds settled
InstalledShells ==
    LET resolved == {Resolve(rel) : rel \in CRITICAL_ASSETS}
    IN  {q \in UNION {[1 .. n -> resolved] : n \in 0 .. Cardinality(resolved)} :
            \A j, k \in DOMAIN q : j # k => q[j] # q[k]}

\* the worker once activated: install and activate have run on an origin
\* without earlier buckets
FetchInit ==
    /\ MetaIdle
    /\ swPhase = "activated"
    /\ skipCalled = TRUE
    /\ oldActive = FALSE
    /\ \E q \in InstalledShells :
          /\ buckets = [n \in BucketNames |->
                           IF n = CACHE_NAME THEN [exists |-> TRUE, keys |-> q]
                           ELSE [exists |-> FALSE, keys |-> <<>>]]
          /\ precached = Range(q)
    /\ precache = {}
    /\ cleanup = [pc |-> "done", lock |-> "absent", todo |-> {}]
    /\ \E sup, en \in BOOLEAN :
          /\ en => sup
          /\ preload = [support |-> sup, enabled |-> en, settled |-> TRUE]
    /\ reqs = <<>>
    /\ skipMsg = FALSE
    /\ before = buckets

\* no function call under study
FnIdle ==
    /\ cycle = [pc |-> "idle"]
    /\ merge = [pc |-> "idle"]
    /\ sync = [pc |-> "idle"]
    /\ call = [pc |-> "idle"]

\* the page as loaded: online, no download started
PageIdle ==
    /\ online = [t \in Tabs |-> TRUE]
    /\ clicks = [t \in Tabs |-> [b \in Bundles |-> 0]]
    /\ unloaded = [t \in Tabs |-> FALSE]

\* the Download Counter of a page that never calls it
DcIdle == DcInit

\* the service worker before it is registered
SwIdle ==
    /\ MetaIdle
    /\ swPhase = "parsed"
    /\ skipCalled = FALSE
    /\ oldActive = FALSE
    /\ buckets = [n \in BucketNames |-> [exists |-> FALSE, keys |-> <<>>]]
    /\ precache = {}
    /\ cleanup = [pc |-> "idle", lock |-> "none", todo |-> {}]
    /\ preload = [support |-> FALSE, enabled |-> FALSE, settled |-> FALSE]
    /\ reqs = <<>>
    /\ skipMsg = FALSE
    /\ precached = {}
    /\ before = buckets

Init == DcInit /\ SwIdle /\ PageIdle /\ FnIdle

Next == DcNext

Spec == Init /\ [][Next]_vars

(***************************************************************************)
(* Two tabs that both run the Download Counter, after init has completed   *)
(* in each: every download GitHub counts is one that recordDownload was    *)
(* called for, and the messages a tab handles are those the other posted.  *)
(***************************************************************************)
\* both init calls have returned with GitHub at Gh0: the counts are merged,
\* the poll interval runs, the fast cache is written, the counts-update
\* messages of init have been handled
TabsInit ==
    /\ counts = [t \in Tabs |-> [b \in Bundles |-> IF b \in Tracked THEN Gh0 ELSE Undef]]
    /\ apps = [t \in Tabs |-> TRUE]
    /\ pollTimer = [t \in Tabs |-> 1]
    /\ postDlTimer = [t \in Tabs |-> 0]
    /\ pendingInit = [t \in Tabs |-> FALSE]
    /\ channel = [t \in Tabs |-> TRUE]
    /\ timers = [t \in Tabs |-> {[id |-> 1, kind |-> "poll", left |-> 0]}]
    /\ inflight = [t \in Tabs |-> <<>>]
    /\ inbox = [t \in Tabs |-> <<>>]
    /\ cache = WriteCache([b \in Bundles |-> IF b \in Tracked THEN Gh0 ELSE Undef])
    /\ gh = [b \in Bundles |-> Gh0]
    /\ events = 0
    /\ sinceDl = [t \in Tabs |-> 0]
    /\ fires = [t \in Tabs |-> 0]
    /\ quiet = [t \in Tabs |-> FALSE]
    /\ recorded = [t \in Tabs |-> [b \in Bundles |-> 0]]
    /\ stale = [t \in Tabs |-> FALSE]
    /\ superseded = [t \in Tabs |-> FALSE]

\* the downloads of an app recorded in all tabs
RecordedAll(b) == recorded[1][b] + recorded[2][b]

\* a handler that passes on what it has merged
OnMessageRelays(t, ib) == Broadcast(t, CountsUpdate(counts[t]), ib)

\* what _channel.onmessage posts: nothing, neither branch calls _broadcast
OnMessagePosts(t, ib) == ib

\* the message event of the oldest message posted to the tab:
\* _channel.onmessage
Deliver(t) ==
    /\ channel[t]
    /\ inbox[t] # <<>>
    /\ counts' = [counts EXCEPT ![t] = OnMessage(@, Head(inbox[t]))]
    /\ inbox' = OnMessagePosts(t, [inbox EXCEPT ![t] = Tail(@)])
    /\ UNCHANGED <<apps, pollTimer, postDlTimer, pendingInit, channel, timers,
                   inflight, cache, gh, events, sinceDl, fires, quiet,
                   recorded, stale, superseded, nonDcVars>>

\* GitHub counts a download that a tab has recorded
GhCount(b) ==
    /\ gh[b] < Gh0 + RecordedAll(b)
    /\ gh' = [gh EXCEPT ![b] = @ + 1]
    /\ UNCHANGED <<counts, apps, pollTimer, postDlTimer, pendingInit, channel,
                   timers, inflight, inbox, cache, events, sinceDl, fires, quiet,
                   recorded, stale, superseded, nonDcVars>>

\* init calls, downloads and poll ticks in one run of the two tabs
MaxTabEvents == 2

\* the fast cache is left out of the environment: every cycle here is forced
\* and reads nothing from it
TabsNext ==
    \/ \E t \in Tabs : \E b \in Tracked :
          events < MaxTabEvents /\ RecordDownload(t, b)
    \/ \E t \in Tabs : PostDlFire(t)
    \/ \E t \in Tabs : \E i \in 1 .. 3 : PostDlDone(t, i)
    \/ \E t \in Tabs : events < MaxTabEvents /\ PollFire(t)
    \/ \E t \in Tabs : \E i \in 1 .. 3 : PollDone(t, i)
    \/ \E t \in Tabs : Deliver(t)
    \/ Tick
    \/ \E b \in Tracked : GhCount(b)

InitTabs == TabsInit /\ SwIdle /\ PageIdle /\ FnIdle

SpecTabs == InitTabs /\ [][TabsNext]_vars

(***************************************************************************)
(* The two tabs from the time they are opened: init runs in each, with its *)
(* fetch cycle served by the fast cache or by the network.                 *)
(***************************************************************************)
\* the module-level lets of both tabs, each with its BroadcastChannel
OpenInit ==
    /\ counts = [t \in Tabs |-> EmptyMap]
    /\ apps = [t \in Tabs |-> FALSE]
    /\ pollTimer = [t \in Tabs |-> 0]
    /\ postDlTimer = [t \in Tabs |-> 0]
    /\ pendingInit = [t \in Tabs |-> FALSE]
    /\ channel = [t \in Tabs |-> TRUE]
    /\ timers = [t \in Tabs |-> {}]
    /\ inflight = [t \in Tabs |-> <<>>]
    /\ inbox = [t \in Tabs |-> <<>>]
    /\ cache = NoCache
    /\ gh = [b \in Bundles |-> Gh0]
    /\ events = 0
    /\ sinceDl = [t \in Tabs |-> 0]
    /\ fires = [t \in Tabs |-> 0]
    /\ quiet = [t \in Tabs |-> FALSE]
    /\ recorded = [t \in Tabs |-> [b \in Bundles |-> 0]]
    /\ stale = [t \in Tabs |-> FALSE]
    /\ superseded = [t \in Tabs |-> FALSE]

OpenNext ==
    \/ \E t \in Tabs : events < MaxTabEvents /\ InitCall(t, TRUE)
    \/ \E t \in Tabs : \E i \in 1 .. 3 : InitDone(t, i)
    \/ CacheExpire
    \/ TabsNext

InitOpen == OpenInit /\ SwIdle /\ PageIdle /\ FnIdle

SpecOpen == InitOpen /\ [][OpenNext]_vars

InitSW == SwInit /\ DcIdle /\ PageIdle /\ FnIdle

SpecSW == InitSW /\ [][SwNext]_vars

(***************************************************************************)
(* Activation with the steps of cleanOldCaches apart: the lock request     *)
(* stays pending while another holder has 'sw-cache-cleanup', the 5 s      *)
(* timer aborts a pending request, and caches.keys() or a caches.delete()  *)
(* may reject.                                                             *)
(***************************************************************************)
\* navigator.locks.request is called without { signal }
SignalOmitted == FALSE

\* { signal: controller.signal }, aborted by the 5000 ms timer
SignalPassed == TRUE

\* 'locks' in navigator, or not: without it deleteOldCaches runs directly
LockRequest(has) ==
    /\ cleanup.pc = "lock"
    /\ cleanup' = IF has THEN [cleanup EXCEPT !.pc = "pending"]
                  ELSE [cleanup EXCEPT !.pc = "keys", !.lock = "absent"]
    /\ UNCHANGED <<swPhase, skipCalled, oldActive, buckets, precache, preload,
                   reqs, skipMsg, precached, before, nonSwState>>

\* the lock is granted: the callback runs deleteOldCaches under it
LockGranted ==
    /\ cleanup.pc = "pending"
    /\ cleanup' = [cleanup EXCEPT !.pc = "keys", !.lock = "granted"]
    /\ UNCHANGED <<swPhase, skipCalled, oldActive, buckets, precache, preload,
                   reqs, skipMsg, precached, before, nonSwState>>

\* setTimeout(() => controller.abort(), 5000) fires on the pending request:
\* AbortError, caught, deleteOldCaches without the lock
LockAbort ==
    /\ cleanup.pc = "pending"
    /\ SignalPassed
    /\ cleanup' = [cleanup EXCEPT !.pc = "keys", !.lock = "abort"]
    /\ UNCHANGED <<swPhase, skipCalled, oldActive, buckets, precache, preload,
                   reqs, skipMsg, precached, before, nonSwState>>

\* the request rejects with another error: caught, deleteOldCaches without
\* the lock
LockFailed ==
    /\ cleanup.pc = "pending"
    /\ cleanup' = [cleanup EXCEPT !.pc = "keys", !.lock = "error"]
    /\ UNCHANGED <<swPhase, skipCalled, oldActive, buckets, precache, preload,
                   reqs, skipMsg, precached, before, nonSwState>>

\* caches.keys() or a caches.delete() rejects.  Under the lock the rejection
\* comes out of locks.request and the catch runs deleteOldCaches again;
\* otherwise cleanOldCaches rejects
DeleteFails ==
    /\ cleanup.pc \in {"keys", "deleting"}
    /\ cleanup' = IF cleanup.lock = "granted"
                  THEN [cleanup EXCEPT !.pc = "keys", !.lock = "error",
                                       !.todo = {}]
                  ELSE [cleanup EXCEPT !.pc = "failed", !.todo = {}]
    /\ UNCHANGED <<swPhase, skipCalled, oldActive, buckets, precache, preload,
                   reqs, skipMsg, precached, before, nonSwState>>

\* .catch((err) => { ...; return self.clients.claim(); }): Promise.all
\* rejects as soon as cleanOldCaches does
ClaimOnError ==
    /\ swPhase = "activating"
    /\ cleanup.pc = "failed"
    /\ swPhase' = "activated"
    /\ UNCHANGED <<skipCalled, oldActive, buckets, precache, cleanup, preload,
                   reqs, skipMsg, precached, before, nonSwState>>

ActivateNext ==
    \/ InstallEvent
    \/ \E rel \in CRITICAL_ASSETS : \E ok \in BOOLEAN : PrecacheAdd(rel, ok)
    \/ InstallDone
    \/ \E action \in {"skipWaiting", "checkForUpdate", ""} : PageMessage(action)
    \/ OldGone
    \/ Activate
    \/ \E ok \in BOOLEAN : PreloadEnable(ok)
    \/ \E has \in BOOLEAN : LockRequest(has)
    \/ LockGranted
    \/ LockAbort
    \/ LockFailed
    \/ CleanKeys
    \/ \E key \in BucketNames : CleanDelete(key)
    \/ DeleteFails
    \/ CleanDone
    \/ Claim
    \/ ClaimOnError

InitActivate == SwInit /\ DcIdle /\ PageIdle /\ FnIdle

\* the promises of the activate listener settle and their reactions run; the
\* grant of the lock and its failure are up to the other holder and so are
\* not assumed, the 5 s timer is
SpecActivate ==
    /\ InitActivate
    /\ [][ActivateNext]_vars
    /\ WF_vars(\E ok \in BOOLEAN : PreloadEnable(ok))
    /\ WF_vars(\E has \in BOOLEAN : LockRequest(has))
    /\ WF_vars(LockAbort)
    /\ WF_vars(CleanKeys)
    /\ WF_vars(\E key \in BucketNames : CleanDelete(key))
    /\ WF_vars(CleanDone)
    /\ WF_vars(Claim)
    /\ WF_vars(ClaimOnError)

InitFetch == FetchInit /\ DcIdle /\ PageIdle /\ FnIdle

\* the steps of a handler that wait for the Cache API only
FetchLocal(i) ==
    \/ NavShell(i)
    \/ NetFirstMatch(i)
    \/ CacheFirstMatch(i)
    \/ PutDone(i)
    \/ TrimKeys(i)
    \/ TrimStep(i)

\* the Cache API settles every call; fetch(request) and the preload response
\* are awaited with no timer and no AbortController, so nothing makes them
\* settle
SpecFetchFair ==
    /\ InitFetch
    /\ [][FetchNext]_vars
    /\ \A i \in 1 .. MaxRequests : WF_vars(FetchLocal(i))

\* every URL the model knows
RouteUrls == Urls \cup JsonUrls \cup GhUrls
                \cup {IconUrl, RemoteImage, RemoteScript, RemoteJson, JsonQueryUrl}

\* fetch events only: what the listener does with each request
RouteNext ==
    \E url \in RouteUrls : \E method \in {"GET", "POST"} :
       \E mode \in {"navigate", "cors", "no-cors"} : \E pre \in PreloadKinds :
          FetchEvent(url, method, mode, pre)

InitRoute == FetchInit /\ DcIdle /\ PageIdle /\ FnIdle

SpecRoute == InitRoute /\ [][RouteNext]_vars

\* the URLs a shell bucket may hold when trimCache is called
TrimUrls == Urls \cup {"/index.html", "/a.js", "/b.js"}

\* every order of every choice of them
Fillings ==
    {q \in UNION {[1 .. n -> TrimUrls] : n \in 0 .. Cardinality(TrimUrls)} :
        \A j, k \in DOMAIN q : j # k => q[j] # q[k]}

\* one trimCache(CACHE_NAME, MAX_SHELL_ITEMS) call about to read the keys,
\* nothing else running
TrimInit ==
    /\ MetaIdle
    /\ swPhase = "activated"
    /\ skipCalled = TRUE
    /\ oldActive = FALSE
    /\ \E q \in Fillings :
          buckets = [n \in BucketNames |->
                        IF n = CACHE_NAME THEN [exists |-> TRUE, keys |-> q]
                        ELSE [exists |-> FALSE, keys |-> <<>>]]
    /\ precached = {}
    /\ precache = {}
    /\ cleanup = [pc |-> "done", lock |-> "absent", todo |-> {}]
    /\ preload = [support |-> FALSE, enabled |-> FALSE, settled |-> TRUE]
    /\ reqs = <<[Finish(NewRequest("/app.css", "no-cors", "absent"), "network")
                    EXCEPT !.put = "done", !.trim.pc = "keys"]>>
    /\ skipMsg = FALSE
    /\ before = buckets

TrimNext == TrimKeys(1) \/ TrimStep(1)

InitTrim == TrimInit /\ DcIdle /\ PageIdle /\ FnIdle

SpecTrim == InitTrim /\ [][TrimNext]_vars

InitHandlers == HandlersInit /\ DcIdle /\ PageIdle /\ FnIdle

SpecFetch == InitFetch /\ [][FetchNext]_vars

SpecHandlers == InitHandlers /\ [][HandlersNext]_vars

(***************************************************************************)
(* The releases requests of one URL through staleWhileRevalidateGitHub,    *)
(* with what each response carries: the data GitHub serves changes (net),  *)
(* the data bucket holds one entry for the URL (entry) and every request   *)
(* runs fetchAndCache, awaited or not.  Requests are numbered in the order *)
(* in which their handler reads the bucket.                                *)
(***************************************************************************)
MaxGhRequests == 2

MaxVersion == 2

\* the bucket of a first visit, or the entry an earlier visit left
GhDataInit ==
    \E has \in BOOLEAN :
       call = [pc |-> "run", fn |-> "staleWhileRevalidateGitHub", net |-> 1,
               entry |-> [has |-> has, data |-> IF has THEN 0 ELSE Undef, by |-> 0],
               reqs |-> <<>>]

\* a fetch of the URL reaches the worker (forced: sent by a poll or a
\* reconciliation, which the handler cannot tell from any other): cache.match,
\* the TTL test, and the entry returned if there is one
GhRequest(forced, cachedFresh) ==
    /\ call.pc = "run"
    /\ call.fn = "staleWhileRevalidateGitHub"
    /\ Len(call.reqs) < MaxGhRequests
    /\ cachedFresh => call.entry.has
    /\ LET r == GhServe(NewRequest(GhUrl1, "cors", "absent"), call.entry.has,
                        cachedFresh)
           hit == r.resp = "cached"
       IN  call' = [call EXCEPT !.reqs = Append(@,
                       [forced |-> forced,
                        had |-> call.entry.has,
                        seq |-> \A j \in DOMAIN call.reqs : call.reqs[j].pc = "done",
                        pc |-> "fetch",
                        waits |-> ~hit,
                        src |-> IF hit THEN "cache" ELSE "pending",
                        resp |-> IF hit THEN call.entry.data ELSE Undef,
                        by |-> IF hit THEN call.entry.by ELSE Undef,
                        outcome |-> "pending",
                        got |-> Undef])]
    /\ UNCHANGED nonCallVars

\* fetchAndCache: the fetch settles; the handler that awaited it returns the
\* response, or the 503 stub when the fetch rejected
GhFetched(i, outcome) ==
    /\ call.pc = "run"
    /\ call.fn = "staleWhileRevalidateGitHub"
    /\ i \in DOMAIN call.reqs
    /\ call.reqs[i].pc = "fetch"
    /\ LET rq == call.reqs[i]
           settled == [rq EXCEPT !.outcome = outcome,
                                 !.got = IF outcome = "reject" THEN Undef ELSE call.net,
                                 !.pc = IF ResponseOk(outcome) THEN "put" ELSE "done"]
       IN  call' = [call EXCEPT !.reqs[i] =
                       IF ~rq.waits THEN settled
                       ELSE IF outcome = "reject"
                       THEN [settled EXCEPT !.src = "stub"]
                       ELSE [settled EXCEPT !.src = "net", !.resp = call.net,
                                            !.by = i]]
    /\ UNCHANGED nonCallVars

\* cache.put(request, stamped) completes
GhStored(i) ==
    /\ call.pc = "run"
    /\ call.fn = "staleWhileRevalidateGitHub"
    /\ i \in DOMAIN call.reqs
    /\ call.reqs[i].pc = "put"
    /\ call' = [call EXCEPT !.reqs[i].pc = "done",
                            !.entry = [has |-> TRUE, data |-> call.reqs[i].got,
                                       by |-> i]]
    /\ UNCHANGED nonCallVars

\* a release is published or an asset is downloaded: GitHub serves new data
GhNetChange ==
    /\ call.pc = "run"
    /\ call.fn = "staleWhileRevalidateGitHub"
    /\ call.net < MaxVersion
    /\ call' = [call EXCEPT !.net = @ + 1]
    /\ UNCHANGED nonCallVars

GhDataNext ==
    \/ \E forced, cachedFresh \in BOOLEAN : GhRequest(forced, cachedFresh)
    \/ \E i \in 1 .. MaxGhRequests :
          \E outcome \in {"ok", "status", "reject"} : GhFetched(i, outcome)
    \/ \E i \in 1 .. MaxGhRequests : GhStored(i)
    \/ GhNetChange

InitGhData ==
    /\ GhDataInit
    /\ cycle = [pc |-> "idle"] /\ merge = [pc |-> "idle"] /\ sync = [pc |-> "idle"]
    /\ DcIdle /\ SwIdle /\ PageIdle

SpecGhData == InitGhData /\ [][GhDataNext]_vars

(***************************************************************************)
(* The page (app.js): what it does with the Download Counter.              *)
(***************************************************************************)
\* trackDownload(appId); urlOk is isValidDownloadUrl(app.downloadUrl)
TrackDownload(t, appId, urlOk) ==
    IF appId \notin Bundles \/ ~online[t] \/ ~urlOk
    THEN UNCHANGED vars
    ELSE /\ events < MaxEvents
         /\ clicks' = [clicks EXCEPT ![t][appId] = @ + 1]
         /\ events' = events + 1
         /\ UNCHANGED <<counts, apps, pollTimer, postDlTimer, pendingInit, channel,
                        timers, inflight, inbox, cache, gh, sinceDl, fires, quiet,
                        recorded, stale, superseded, swVars, metaVars, online,
                        unloaded, fnVars>>

\* updateOnlineStatus: AppState.isOnline = navigator.onLine
OnlineChange(t) ==
    /\ online' = [online EXCEPT ![t] = ~@]
    /\ UNCHANGED <<dcVars, swVars, metaVars, clicks, unloaded, fnVars>>

\* the two beforeunload listeners of app.js: they disconnect the page's
\* observers and clear the page's own timers; neither calls
\* GH_DOWNLOADS.destroy
BeforeUnload(t) ==
    /\ ~unloaded[t]
    /\ unloaded' = [unloaded EXCEPT ![t] = TRUE]
    /\ UNCHANGED <<dcVars, swVars, metaVars, online, clicks, fnVars>>

\* every call the page makes into the Download Counter, and what follows
PageNext ==
    \/ \E t \in Local : \E nonEmpty \in BOOLEAN : InitCall(t, nonEmpty)
    \/ \E t \in Local : \E i \in 1 .. 3 : InitDone(t, i)
    \/ \E t \in Local : PollFire(t)
    \/ \E t \in Local : \E i \in 1 .. 3 : PollDone(t, i)
    \/ \E t \in Local : \E appId \in Bundles \cup {"none"} : \E urlOk \in BOOLEAN :
          TrackDownload(t, appId, urlOk)
    \/ \E t \in Local : OnlineChange(t)
    \/ \E t \in Local : BeforeUnload(t)
    \/ \E b \in Tracked : GhBump(b)
    \/ CacheExpire

SpecPage == Init /\ [][PageNext]_vars

(***************************************************************************)
(* _fetchAllDownloads on the network path: one cycle over two repositories.*)
(***************************************************************************)
MaxCount == 2

Repos == {"r1", "r2"}

\* asset and base names, character by character
AppIpa == <<"A", "p", "p", ".", "i", "p", "a">>

AppIpaUpper == <<"a", "p", "p", ".", "I", "P", "A">>

ProIpa == <<"P", "r", "o", ".", "i", "p", "a">>

AppZip == <<"A", "p", "p", ".", "z", "i", "p">>

BaseApp == <<"A", "p", "p">>

BasePro == <<"P", "r", "o">>

DotIpa == <<".", "i", "p", "a">>

\* the apps array: bundleId, and what _deriveRepoInfo makes of downloadUrl
\* (repo "" where the URL does not match)
CycleApps ==
    {[bundleId |-> "a", repo |-> "r1", baseName |-> BaseApp],
     [bundleId |-> "c", repo |-> "r1", baseName |-> BasePro],
     [bundleId |-> "d", repo |-> "r2", baseName |-> BaseApp],
     [bundleId |-> "b", repo |-> "",   baseName |-> <<>>]}

CycleBundles == {app.bundleId : app \in CycleApps}

\* String.prototype.toLowerCase on the letters the names use
ToLowerCase(q) ==
    [i \in DOMAIN q |->
        CASE q[i] = "A" -> "a"
          [] q[i] = "F" -> "f"
          [] q[i] = "S" -> "s"
          [] q[i] = "I" -> "i"
          [] q[i] = "P" -> "p"
          [] OTHER -> q[i]]

EndsWith(q, suffix) ==
    Len(q) >= Len(suffix) /\ SubSeq(q, Len(q) - Len(suffix) + 1, Len(q)) = suffix

\* _assetMatches without the two toLowerCase calls
AssetMatchesExact(assetName, baseName) ==
    EndsWith(assetName, DotIpa) /\ StartsWith(assetName, baseName)

\* _assetMatches
AssetMatches(assetName, baseName) ==
    LET lower == ToLowerCase(assetName)
    IN  EndsWith(lower, DotIpa) /\ StartsWith(lower, ToLowerCase(baseName))

RECURSIVE SumAssets(_, _)
\* the inner loop of _sumDownloads: total += asset.download_count ?? 0
SumAssets(assets, baseName) ==
    IF assets = <<>> THEN 0
    ELSE (IF AssetMatches(Head(assets).name, baseName)
          THEN (IF Head(assets).download_count = Null THEN 0
                ELSE Head(assets).download_count)
          ELSE 0) + SumAssets(Tail(assets), baseName)

\* _sumDownloads reading the latest release only
SumLatestOnly(releases, baseName) ==
    IF releases = <<>> \/ ~Head(releases).hasAssets THEN 0
    ELSE SumAssets(Head(releases).assets, baseName)

RECURSIVE SumDownloads(_, _)
\* _sumDownloads: a release whose assets is not an array is skipped
SumDownloads(releases, baseName) ==
    IF releases = <<>> THEN 0
    ELSE (IF Head(releases).hasAssets
          THEN SumAssets(Head(releases).assets, baseName)
          ELSE 0) + SumDownloads(Tail(releases), baseName)

\* what _fetchWithTimeout can come back with for one page
PageStatuses == {"200", "403", "429", "500", "503", "abort"}

RECURSIVE ReleasesWithoutOkTest(_, _)
\* _fetchAllReleases without if (!res.ok) throw: the body of a response that
\* is not ok is read like a page, and the worker's 503 stub has the body []
ReleasesWithoutOkTest(pages, releases) ==
    IF pages = <<>> THEN [status |-> "fulfilled", value |-> releases, reason |-> ""]
    ELSE LET res == Head(pages)
         IN  IF res.status = "abort"
             THEN [status |-> "rejected", value |-> <<>>, reason |-> "AbortError"]
             ELSE IF res.status \in {"403", "429"}
             THEN [status |-> "rejected", value |-> <<>>, reason |-> "rate_limited:"]
             ELSE ReleasesWithoutOkTest(Tail(pages),
                     releases \o (IF res.status = "200" THEN res.page ELSE <<>>))

RECURSIVE FetchAllReleases(_, _)
\* _fetchAllReleases: page after page while there is a next link; 403 and 429
\* throw rate_limited, another status that is not ok throws http_, an
\* aborted fetch rejects
FetchAllReleases(pages, releases) ==
    IF pages = <<>> THEN [status |-> "fulfilled", value |-> releases, reason |-> ""]
    ELSE LET res == Head(pages)
         IN  IF res.status = "abort"
             THEN [status |-> "rejected", value |-> <<>>, reason |-> "AbortError"]
             ELSE IF res.status \in {"403", "429"}
             THEN [status |-> "rejected", value |-> <<>>, reason |-> "rate_limited:"]
             ELSE IF res.status # "200"
             THEN [status |-> "rejected", value |-> <<>>, reason |-> "http_"]
             ELSE FetchAllReleases(Tail(pages), releases \o res.page)

\* Promise.all: one rejection rejects the whole
PromiseAll(results) ==
    [threw |-> \E r \in DOMAIN results : results[r].status = "rejected",
     results |-> results]

\* Promise.allSettled: never rejects
PromiseAllSettled(results) == [threw |-> FALSE, results |-> results]

\* _fetchAllDownloads past the cache test: repoMap, the concurrent fetches,
\* the counts object, _writeCache
FetchAllDownloads(appList, net) ==
    LET derived == {app \in appList : app.repo # ""}
        repos   == {app.repo : app \in derived}
        settled == PromiseAllSettled([r \in repos |-> FetchAllReleases(net[r], <<>>)])
        count(app) ==
            IF settled.results[app.repo].status = "rejected" THEN Null
            ELSE SumDownloads(settled.results[app.repo].value, app.baseName)
    IN  IF repos = {}
        THEN [threw |-> FALSE, wrote |-> FALSE,
              counts |-> [b \in CycleBundles |-> Undef]]
        ELSE IF settled.threw
        THEN [threw |-> TRUE, wrote |-> FALSE,
              counts |-> [b \in CycleBundles |-> Undef]]
        ELSE [threw |-> FALSE, wrote |-> TRUE,
              counts |-> [b \in CycleBundles |->
                            IF \E app \in derived : app.bundleId = b
                            THEN count(CHOOSE app \in derived : app.bundleId = b)
                            ELSE Undef]]

Asset(name, count) == [name |-> name, download_count |-> count]

\* the pages GitHub serves: r1 in two pages, r2 in one
Network(st, dl) ==
    [r \in Repos |->
        IF r = "r1"
        THEN <<[status |-> st[1],
                page |-> <<[hasAssets |-> TRUE,
                            assets |-> <<Asset(AppIpa, dl[1]), Asset(ProIpa, dl[2]),
                                         Asset(AppZip, dl[1])>>]>>],
               [status |-> st[2],
                page |-> <<[hasAssets |-> TRUE,
                            assets |-> <<Asset(AppIpaUpper, dl[3])>>]>>]>>
        ELSE <<[status |-> st[3],
                page |-> <<[hasAssets |-> FALSE, assets |-> <<>>],
                           [hasAssets |-> TRUE,
                            assets |-> <<Asset(AppIpa, dl[4])>>]>>]>>]

CycleInit ==
    \E st \in [1 .. 3 -> PageStatuses] :
       \E dl \in [1 .. 4 -> {Null} \cup (0 .. MaxCount)] :
          cycle = [pc |-> "fetching", st |-> st, dl |-> dl]

\* the cycle settles: the Map _fetchAllDownloads resolves with
CycleSettle ==
    /\ cycle.pc = "fetching"
    /\ LET out == FetchAllDownloads(CycleApps, Network(cycle.st, cycle.dl))
       IN  cycle' = [pc |-> "done", st |-> cycle.st, dl |-> cycle.dl,
                     threw |-> out.threw, wrote |-> out.wrote, counts |-> out.counts]
    /\ UNCHANGED <<dcVars, swVars, metaVars, pageVars, merge, sync, call>>

InitCycle ==
    /\ CycleInit
    /\ merge = [pc |-> "idle"]
    /\ sync = [pc |-> "idle"]
    /\ call = [pc |-> "idle"]
    /\ DcIdle /\ SwIdle /\ PageIdle

SpecCycle == InitCycle /\ [][CycleSettle]_vars

(***************************************************************************)
(* One merge of an incoming count into the count in memory, at each of the *)
(* four places that merge.                                                 *)
(***************************************************************************)
MergeSites == {"init", "poll", "postDl", "counts-update"}

\* a Map or object holding the one key "a", or not holding it
Single(v) == [k \in Bundles |-> IF k = "a" THEN v ELSE Undef]

MergeAt(site, cur, incoming) ==
    CASE site = "init"          -> InitMerge(cur, incoming)
      [] site = "poll"          -> PollMerge(cur, incoming)
      [] site = "postDl"        -> PostDlMerge(cur, incoming)
      [] site = "counts-update" -> OnCountsUpdate(cur, incoming)

MergeInit ==
    \E site \in MergeSites :
       \E cur \in {Undef, Null} \cup (0 .. MaxCount) :
          \E inc \in {Null} \cup (0 .. MaxCount) :
             merge = [pc |-> "called", site |-> site, cur |-> cur, inc |-> inc]

MergeApply ==
    /\ merge.pc = "called"
    /\ merge' = [pc |-> "done", site |-> merge.site, cur |-> merge.cur,
                 inc |-> merge.inc,
                 out |-> MergeAt(merge.site, Single(merge.cur), Single(merge.inc))["a"]]
    /\ UNCHANGED <<dcVars, swVars, metaVars, pageVars, cycle, sync, call>>

InitMergeCall ==
    /\ MergeInit
    /\ cycle = [pc |-> "idle"]
    /\ sync = [pc |-> "idle"]
    /\ call = [pc |-> "idle"]
    /\ DcIdle /\ SwIdle /\ PageIdle

SpecMerge == InitMergeCall /\ [][MergeApply]_vars

(***************************************************************************)
(* _deriveRepoInfo(downloadUrl).  A URL is its path segments up to the     *)
(* file name, the file name character by character, and what follows it.   *)
(***************************************************************************)
MaxStem == 4

Digits == {"0", "1", "2", "3", "4", "5", "6", "7", "8", "9"}

Letters == {"A", "F", "I", "P", "Y", "T", "E", "S",
            "a", "b", "e", "f", "i", "l", "o", "p", "s", "t", "u", "v", "y", "z"}

\* [_-]
Separators == {"_", "-"}

\* [\w.+-]
SuffixChars == Letters \cup Digits \cup {"_", ".", "+", "-"}

\* [A-Za-z0-9_.-]+ on the owner and repository names the model uses
NameOk(x) == x \in {"o", "r1", "r2"}

\* filename.replace(/\.ipa$/i, '')
StripIpa(filename) ==
    IF EndsWith(ToLowerCase(filename), DotIpa)
    THEN SubSeq(filename, 1, Len(filename) - Len(DotIpa))
    ELSE filename

\* /[_-]\d[\w.+-]*$/ matches from position i
SuffixAt(q, i) ==
    /\ q[i] \in Separators
    /\ i + 1 <= Len(q)
    /\ q[i + 1] \in Digits
    /\ \A j \in (i + 2) .. Len(q) : q[j] \in SuffixChars

\* the replace cutting at the last separator that starts a match
StripVersionLast(noExt) ==
    LET hits == {i \in DOMAIN noExt : SuffixAt(noExt, i)}
    IN  IF hits = {} THEN noExt
        ELSE SubSeq(noExt, 1, (CHOOSE i \in hits : \A j \in hits : j <= i) - 1)

\* noExt.replace(/[_-]\d[\w.+-]*$/, ''): the leftmost match is replaced
StripVersion(noExt) ==
    LET hits == {i \in DOMAIN noExt : SuffixAt(noExt, i)}
    IN  IF hits = {} THEN noExt
        ELSE SubSeq(noExt, 1, (CHOOSE i \in hits : \A j \in hits : i <= j) - 1)

\* the regular expression of _deriveRepoInfo: github.com/ owner/repo
\* /releases/download/ tag / name.ipa at the end of the string
UrlMatches(url) ==
    /\ Len(url.segs) = 6
    /\ url.segs[1] = "github.com"
    /\ NameOk(url.segs[2]) /\ NameOk(url.segs[3])
    /\ url.segs[4] = "releases"
    /\ url.segs[5] = "download"
    /\ url.segs[6] # ""
    /\ url.rest = ""
    /\ Len(url.file) > Len(DotIpa)
    /\ EndsWith(ToLowerCase(url.file), DotIpa)
    /\ \A j \in DOMAIN url.file : url.file[j] \notin {"/", "?", "#"}

\* a downloadUrl that is missing or empty
NoUrl == [segs |-> <<>>, file |-> <<>>, rest |-> ""]

\* the null _deriveRepoInfo returns
NoInfo == [null |-> TRUE]

\* _deriveRepoInfo
DeriveRepoInfo(url) ==
    IF url = NoUrl THEN NoInfo
    ELSE IF ~UrlMatches(url) THEN NoInfo
    ELSE [null |-> FALSE,
          repo |-> <<url.segs[2], url.segs[3]>>,
          baseName |-> StripVersion(StripIpa(url.file))]

\* the file name stems and extensions the calls are made with
StemChars == {"A", "_", "-", "1", "."}

Stems == UNION {[1 .. n -> StemChars] : n \in 0 .. MaxStem}

Extensions == {DotIpa, <<".", "I", "P", "A">>, <<".", "z", "i", "p">>}

\* download URLs of the expected shape, and some that are not
UrlShapes ==
    {<<"github.com", "o", "r1", "releases", "download", "v1">>,
     <<"github.com", "o", "r1", "releases", "tag", "v1">>,
     <<"gitlab.com", "o", "r1", "releases", "download", "v1">>,
     <<"github.com", "o", "r1", "releases", "download">>}

DeriveInit ==
    \/ call = [pc |-> "called", fn |-> "_deriveRepoInfo", url |-> NoUrl]
    \/ \E segs \in UrlShapes : \E stem \in Stems : \E ext \in Extensions :
          \E rest \in {"", "?raw=1"} :
             call = [pc |-> "called", fn |-> "_deriveRepoInfo",
                     url |-> [segs |-> segs, file |-> stem \o ext, rest |-> rest]]

DeriveApply ==
    /\ call.pc = "called"
    /\ call.fn = "_deriveRepoInfo"
    /\ call' = [pc |-> "done", fn |-> call.fn, url |-> call.url,
                out |-> DeriveRepoInfo(call.url)]
    /\ UNCHANGED nonCallVars

InitDerive ==
    /\ DeriveInit
    /\ cycle = [pc |-> "idle"] /\ merge = [pc |-> "idle"] /\ sync = [pc |-> "idle"]
    /\ DcIdle /\ SwIdle /\ PageIdle

SpecDerive == InitDerive /\ [][DeriveApply]_vars

(***************************************************************************)
(* _fetchAllReleases(repo), one request of its loop at a time.  The server *)
(* is the pages it would serve: page p holds the release p and a Link      *)
(* header naming the next page (0: no rel="next"); one page may answer     *)
(* with a status that is not ok, or its fetch may be aborted.              *)
(***************************************************************************)
MaxPages == 3

\* the loop is followed for one request more than there are pages, so that
\* a chain of links that comes back to a page is seen coming back
MaxFetches == MaxPages + 1

\* X-RateLimit-Reset as sent ("": the header is absent)
ResetHeaders == {"", "0", "1", "86400"}

\* new Date(parseInt(reset, 10) * 1000).toLocaleTimeString(), for en-US in UTC
ToLocaleTimeString(reset) ==
    CASE reset = "0"     -> "12:00:00 AM"
      [] reset = "1"     -> "12:00:01 AM"
      [] reset = "86400" -> "12:00:00 AM"
      [] OTHER           -> "Invalid Date"

\* reset ? new Date(...).toLocaleTimeString() : 'soon'
ResetTime(reset) == IF reset = "" THEN "soon" ELSE ToLocaleTimeString(reset)

\* the loop's test with the Link header left unread
NextLinkIgnored(server, url) == 0

\* link.match(/<([^>]+)>;\s*rel="next"/): next ? next[1] : null
NextLink(server, url) == server.next[url]

\* what one pass of the loop throws for the response to url, if it throws
Thrown(server, url) ==
    IF server.bad # url THEN [name |-> "", detail |-> ""]
    ELSE CASE server.status = "abort" -> [name |-> "AbortError", detail |-> ""]
           [] server.status \in {"403", "429"} ->
                 [name |-> "rate_limited:", detail |-> ResetTime(server.reset)]
           [] OTHER -> [name |-> "http_", detail |-> server.status]

Servers ==
    {[next |-> nx, bad |-> 0, status |-> "200", reset |-> ""] :
        nx \in [1 .. MaxPages -> 0 .. MaxPages]}
    \cup
    {[next |-> nx, bad |-> p, status |-> st, reset |-> rs] :
        nx \in [1 .. MaxPages -> 0 .. MaxPages], p \in 1 .. MaxPages,
        st \in {"403", "429"}, rs \in ResetHeaders}
    \cup
    {[next |-> nx, bad |-> p, status |-> st, reset |-> ""] :
        nx \in [1 .. MaxPages -> 0 .. MaxPages], p \in 1 .. MaxPages,
        st \in {"500", "503", "abort"}}

\* let url = `${API_BASE}/repos/${repo}/releases?per_page=100`; let releases = []
ReleasesInit ==
    \E server \in Servers :
       call = [pc |-> "loop", fn |-> "_fetchAllReleases", server |-> server,
               url |-> 1, releases |-> <<>>, fetched |-> 0,
               error |-> [name |-> "", detail |-> ""]]

\* one pass of while (url): the fetch, the status tests, concat, the Link
\* header; the function returns when the header names no next page
ReleasesPage ==
    /\ call.pc = "loop"
    /\ call.fn = "_fetchAllReleases"
    /\ call.fetched < MaxFetches
    /\ LET err  == Thrown(call.server, call.url)
           next == NextLink(call.server, call.url)
       IN  call' = IF err.name # ""
                   THEN [call EXCEPT !.pc = "threw", !.error = err,
                                     !.releases = <<>>,
                                     !.fetched = call.fetched + 1]
                   ELSE [call EXCEPT !.pc = IF next = 0 THEN "returned" ELSE "loop",
                                     !.releases = call.releases \o <<call.url>>,
                                     !.url = next,
                                     !.fetched = call.fetched + 1]
    /\ UNCHANGED nonCallVars

InitReleases ==
    /\ ReleasesInit
    /\ cycle = [pc |-> "idle"] /\ merge = [pc |-> "idle"] /\ sync = [pc |-> "idle"]
    /\ DcIdle /\ SwIdle /\ PageIdle

\* every fetch of the loop settles: _fetchWithTimeout aborts it after
\* FETCH_TIMEOUT_MS
SpecReleases ==
    /\ InitReleases
    /\ [][ReleasesPage]_vars
    /\ WF_vars(ReleasesPage)

(***************************************************************************)
(* _assetMatches(assetName, baseName) called on its own.                   *)
(***************************************************************************)
MaxName == 3

NameChars == {"A", "a", "p", "2"}

Names(n) == UNION {[1 .. k -> NameChars] : k \in 0 .. n}

MatchInit ==
    \E stem \in Names(MaxName) : \E ext \in Extensions :
       \E base \in Names(MaxName - 1) :
          call = [pc |-> "called", fn |-> "_assetMatches",
                  assetName |-> stem \o ext, baseName |-> base]

MatchApply ==
    /\ call.pc = "called"
    /\ call.fn = "_assetMatches"
    /\ call' = [pc |-> "done", fn |-> call.fn, assetName |-> call.assetName,
                baseName |-> call.baseName,
                out |-> AssetMatches(call.assetName, call.baseName)]
    /\ UNCHANGED nonCallVars

InitMatch ==
    /\ MatchInit
    /\ cycle = [pc |-> "idle"] /\ merge = [pc |-> "idle"] /\ sync = [pc |-> "idle"]
    /\ DcIdle /\ SwIdle /\ PageIdle

SpecMatch == InitMatch /\ [][MatchApply]_vars

(***************************************************************************)
(* The periodic poll of initialized tabs behind the worker's               *)
(* staleWhileRevalidateGitHub, for one app whose total on GitHub stays at  *)
(* sync.v while every fetch succeeds.                                      *)
(*   counts  _counts of each tab                                           *)
(*   cached  the total in the releases response the data bucket holds      *)
(*   bg      a fetchAndCache whose response is not stored yet              *)
(*   poll    where each tab's interval callback is                         *)
(*   box     counts-update messages not delivered yet                      *)
(*   above   the tab's count has been above sync.v                         *)
(***************************************************************************)
SyncApp == "a"

Total(m) == Get(m, SyncApp, -1)

Fetched(val) == Put(EmptyMap, SyncApp, val)

SyncInit ==
    \E v \in 1 .. MaxCount : \E held \in {Undef} \cup (0 .. v) :
       \E c0 \in [Tabs -> 0 .. MaxCount] :
          sync = [pc |-> "run", v |-> v, cached |-> held, bg |-> FALSE,
                  counts |-> [t \in Tabs |-> Fetched(c0[t])],
                  poll |-> [t \in Tabs |-> [pc |-> "wait", val |-> Undef]],
                  box |-> [t \in Tabs |-> {}],
                  above |-> [t \in Tabs |-> c0[t] > v],
                  c0 |-> c0, held0 |-> held]

\* the setInterval callback up to the fetch of _fetchAllDownloads
SyncPollFire(t) ==
    /\ sync.pc = "run"
    /\ sync.poll[t].pc = "wait"
    /\ sync' = [sync EXCEPT !.poll[t].pc = "sw"]
    /\ UNCHANGED <<dcVars, swVars, metaVars, pageVars, cycle, merge, call>>

\* staleWhileRevalidateGitHub on the poll's request: the entry if there is
\* one, else the network's answer; fetchAndCache runs either way
SyncServe(t, cachedFresh) ==
    /\ sync.pc = "run"
    /\ sync.poll[t].pc = "sw"
    /\ LET r == GhServe(NewRequest(GhUrl1, "cors", "absent"),
                        sync.cached # Undef, cachedFresh)
       IN  sync' = [sync EXCEPT
                      !.poll[t] = [pc |-> "resp",
                                   val |-> IF r.resp = "cached" THEN sync.cached
                                           ELSE sync.v],
                      !.bg = sync.bg \/ r.bg = "pending" \/ r.pc = "swrfetch"]
    /\ UNCHANGED <<dcVars, swVars, metaVars, pageVars, cycle, merge, call>>

\* fetchAndCache: response.ok, cache.put(request, stamped)
SyncRefresh ==
    /\ sync.pc = "run"
    /\ sync.bg
    /\ sync' = [sync EXCEPT !.cached = sync.v, !.bg = FALSE]
    /\ UNCHANGED <<dcVars, swVars, metaVars, pageVars, cycle, merge, call>>

\* the rest of the callback: merge, broadcast counts-update
SyncPollDone(t) ==
    /\ sync.pc = "run"
    /\ sync.poll[t].pc = "resp"
    /\ LET merged == PollMerge(sync.counts[t], Fetched(sync.poll[t].val))
       IN  sync' = [sync EXCEPT
                      !.counts[t] = merged,
                      !.poll[t] = [pc |-> "wait", val |-> Undef],
                      !.box = [u \in Tabs |->
                                  IF u = t THEN sync.box[u]
                                  ELSE sync.box[u] \cup {Total(merged)}],
                      !.above[t] = sync.above[t] \/ Total(merged) > sync.v]
    /\ UNCHANGED <<dcVars, swVars, metaVars, pageVars, cycle, merge, call>>

\* _channel.onmessage with a counts-update
SyncMessage(t, val) ==
    /\ sync.pc = "run"
    /\ val \in sync.box[t]
    /\ LET merged == OnCountsUpdate(sync.counts[t], Fetched(val))
       IN  sync' = [sync EXCEPT
                      !.counts[t] = merged,
                      !.box[t] = sync.box[t] \ {val},
                      !.above[t] = sync.above[t] \/ Total(merged) > sync.v]
    /\ UNCHANGED <<dcVars, swVars, metaVars, pageVars, cycle, merge, call>>

SyncNext ==
    \/ \E t \in Tabs : SyncPollFire(t)
    \/ \E t \in Tabs : \E cachedFresh \in BOOLEAN : SyncServe(t, cachedFresh)
    \/ SyncRefresh
    \/ \E t \in Tabs : SyncPollDone(t)
    \/ \E t \in Tabs : \E val \in 0 .. MaxCount : SyncMessage(t, val)

InitSync ==
    /\ SyncInit
    /\ call = [pc |-> "idle"]
    /\ cycle = [pc |-> "idle"]
    /\ merge = [pc |-> "idle"]
    /\ DcIdle /\ SwIdle /\ PageIdle

\* setInterval keeps firing, the worker answers every request, every fetch
\* succeeds and every message is delivered
SpecSync ==
    /\ InitSync
    /\ [][SyncNext]_vars
    /\ \A t \in Tabs :
          /\ WF_vars(SyncPollFire(t))
          /\ WF_vars(\E cachedFresh \in BOOLEAN : SyncServe(t, cachedFresh))
          /\ WF_vars(SyncPollDone(t))
          /\ WF_vars(\E val \in 0 .. MaxCount : SyncMessage(t, val))
    /\ WF_vars(SyncRefresh)

(***************************************************************************)
(* Properties of the Download Counter.                                     *)
(***************************************************************************)
InitCycles(t) == {i \in DOMAIN inflight[t] : inflight[t][i].kind = "init"}

Sum(f) == f["a"] + f["b"]

\* C1: in a tab the in-memory count of a bundle id never decreases and never
\* disappears, whatever init, the poll, the post-download fetch, a received
\* message or recordDownload does: a lower total fetched later does not roll
\* an optimistic value back.
C1_CountNeverDecreases ==
    [][\A t \in Tabs : \A b \in Bundles :
          counts[t][b] # Undef =>
              counts'[t][b] # Undef /\ counts'[t][b] >= counts[t][b]]_vars

\* C1 witness: a fetched total below the count in memory has been merged, and
\* the count is still above what GitHub reports.
C1_Witness ==
    stale[1] /\ counts[1]["a"] # Undef /\ counts[1]["a"] > gh["a"]

\* C2: the counts of a tab do not depend on the order in which messages
\* arrive, and a message handled twice changes nothing the second time.
\* Stated of every message the tab handles: handling it once more leaves the
\* counts as they are, and any other message gives the same counts whether it
\* is handled before or after it.
C2_OrderIndependent ==
    [][\A t \in Local : \A m \in PeerMessages :
          Receive(t, m) =>
              /\ OnMessage(counts'[t], m) = counts'[t]
              /\ \A n \in PeerMessages :
                    OnMessage(OnMessage(counts[t], m), n)
                        = OnMessage(OnMessage(counts[t], n), m)]_vars

\* C3: recordDownload(bundleId) with a non-empty id raises that id's count by
\* exactly 1 in the same step (an absent count counts as 0), changes no other
\* id and completes no fetch; and as long as nothing but recordDownload has
\* run, each count is the number of calls made for it (two calls: 2).
C3_IncrementByOne ==
    /\ [][\A t \in Local : \A b \in Bundles :
             RecordDownload(t, b) =>
                 /\ counts'[t][b]
                        = (IF counts[t][b] = Undef THEN 0 ELSE counts[t][b]) + 1
                 /\ \A k \in Bundles \ {b} : counts'[t][k] = counts[t][k]
                 /\ inflight' = inflight]_vars
    /\ [](\A t \in Local :
             (events = Sum(recorded[t]) /\ gh = [b \in Bundles |-> Gh0]) =>
                 \A b \in Bundles :
                     counts[t][b]
                         = (IF recorded[t][b] = 0 THEN Undef ELSE recorded[t][b]))

\* C3 witness: two recordDownload calls for one app and nothing else; the
\* reconciliation of the second is still pending.
C3_Witness ==
    /\ recorded[1]["a"] = 2 /\ events = 2
    /\ counts[1] = [b \in Bundles |-> IF b = "a" THEN 2 ELSE Undef]
    /\ Pending(1, "postDl") # {} /\ fires[1] = 0

\* C4: at most one post-download timer is pending in a tab; the pending one is
\* the timer of the last recordDownload, due a full delay after that call; it
\* stays pending until it fires or destroy cancels it; and after the last
\* recordDownload at most one timer fires.
C4_OnePendingReconciliation ==
    \A t \in Tabs :
        /\ Cardinality(Pending(t, "postDl")) <= 1
        /\ fires[t] <= 1
        /\ \A x \in Pending(t, "postDl") :
              /\ x.id = postDlTimer[t]
              /\ fires[t] = 0
              /\ x.left + sinceDl[t] = PostDlTicks
        /\ (postDlTimer[t] # 0 /\ fires[t] = 0) => Pending(t, "postDl") # {}

\* C4 witness: a recordDownload replaced a pending timer, and after it exactly
\* one timer has fired and none is pending.
C4_Witness ==
    superseded[1] /\ fires[1] = 1 /\ Pending(1, "postDl") = {}
        /\ sinceDl[1] = PostDlTicks

\* C9: once destroy() has returned and neither init nor recordDownload has
\* been called since, the tab has no timer and its channel is closed.
C9_NoTimerAfterDestroy ==
    \A t \in Tabs : quiet[t] => timers[t] = {} /\ ~channel[t]

\* C10: an init call made while an earlier one is pending changes nothing;
\* at most one init fetch cycle is in flight and at most one poll interval
\* exists in a tab, also after init has run several times.
C10_SingleInit ==
    /\ [][\A t \in Local :
             (pendingInit[t] /\ \E nonEmpty \in BOOLEAN : InitCall(t, nonEmpty))
                 => UNCHANGED vars]_vars
    /\ [](\A t \in Tabs :
             /\ Cardinality(InitCycles(t)) <= 1
             /\ Cardinality(Pending(t, "poll")) <= 1
             /\ pendingInit[t] <=> InitCycles(t) # {})

\* C10 witness: init ran to its end twice without a destroy in between: the
\* second _startPolling replaced the first interval, and one poll timer exists.
C10_Witness ==
    /\ ~pendingInit[1] /\ postDlTimer[1] = 0 /\ pollTimer[1] = 2
    /\ timers[1] = {[id |-> 2, kind |-> "poll", left |-> 0]}


(***************************************************************************)
(* Properties of the service worker.                                       *)
(***************************************************************************)
ShellKeys == Range(buckets[CACHE_NAME].keys)

\* C5: in the shell bucket an entry whose URL is a critical asset pre-cached
\* at install is never deleted by a step of trimCache, even when it is the
\* oldest entry and the bucket is over its limit.
C5_CriticalNeverTrimmed ==
    [][\A i \in 1 .. MaxRequests :
          TrimStep(i) =>
             \A url \in precached :
                url \in ShellKeys => url \in Range(buckets'[CACHE_NAME].keys)]_vars

\* C6: the worker has called skipWaiting only if a message with action
\* 'skipWaiting' has reached it; installing alone requests no activation.
C6_NoSkipBeforeMessage == skipCalled => skipMsg

C8_TotalFailureFallback ==
    \A i \in DOMAIN reqs :
       (reqs[i].mode = "navigate" /\ reqs[i].pc = "done" /\ reqs[i].failed) =>
          reqs[i].resp = IF reqs[i].shellCached THEN "shell" ELSE "offlinePage"


(***************************************************************************)
(* Properties of the page.                                                 *)
(***************************************************************************)
\* C11: every download that trackDownload starts (app found, online, valid
\* URL) raises the in-memory count of the app's bundle id by 1 and leaves a
\* reconciliation timer pending.
C11_DownloadsRecorded ==
    [][\A t \in Local : \A b \in Bundles :
          clicks'[t][b] = clicks[t][b] + 1 =>
             /\ counts'[t] = Increment(counts[t], b)
             /\ {x \in timers'[t] : x.kind = "postDl"} # {}]_vars


(***************************************************************************)
(* Properties of one fetch cycle.                                          *)
(***************************************************************************)
Num(x) == IF x = Null THEN 0 ELSE x

\* the releases fetch of r1 fails on its first page or, that one served, on
\* its second
R1Failed == cycle.st[1] # "200" \/ cycle.st[2] # "200"

R2Failed == cycle.st[3] # "200"

\* C12: when the releases fetch of one repository fails (403, 429, another
\* HTTP error, timeout), each app of a repository whose fetch succeeded has
\* the sum of the download counts of its .ipa assets, each app of a failed
\* repository has null, and the cycle does not throw.
C12_PartialFailureIsolated ==
    cycle.pc = "done" =>
       /\ ~cycle.threw
       /\ cycle.counts["a"] = IF R1Failed THEN Null
                              ELSE Num(cycle.dl[1]) + Num(cycle.dl[3])
       /\ cycle.counts["c"] = IF R1Failed THEN Null ELSE Num(cycle.dl[2])
       /\ cycle.counts["d"] = IF R2Failed THEN Null ELSE Num(cycle.dl[4])

C12_Witness ==
    /\ cycle.pc = "done"
    /\ cycle.st = <<"200", "429", "200">>
    /\ cycle.counts = [a |-> Null, c |-> Null, d |-> 2, b |-> Undef]


(***************************************************************************)
(* Properties of one merge.                                                *)
(***************************************************************************)
\* a count that is unknown: null, or no entry
Known(x) == x # Null /\ x # Undef

\* C13: at every merge site the merge of an incoming count b into the
\* current count a is max(a, b) when both are numbers, the number when one
\* of them is unknown, and unknown when both are.
C13_MergeIsMax ==
    merge.pc = "done" =>
       IF Known(merge.cur) /\ Known(merge.inc)
       THEN merge.out = IF merge.cur >= merge.inc THEN merge.cur ELSE merge.inc
       ELSE IF Known(merge.cur) THEN merge.out = merge.cur
       ELSE IF Known(merge.inc) THEN merge.out = merge.inc
       ELSE ~Known(merge.out)

C13_Witness ==
    /\ merge.pc = "done"
    /\ merge.site = "counts-update"
    /\ merge.cur = 2
    /\ merge.inc = 1
    /\ merge.out = 2


(***************************************************************************)
(* Properties of the data and image handlers.                              *)
(***************************************************************************)
\* OPAQUE_ORIGINS, SAFE_ASSET_PATTERNS and the image context of the guard an
\* earlier fetch listener applied to opaque responses
OpaqueStorable(e) ==
    /\ e.url \in {RemoteImage}
    /\ e.dest = "image"

C19_CachedServedWhateverTtl ==
    \A i \in DOMAIN reqs :
       (reqs[i].handler = "staleWhileRevalidateGitHub"
           /\ reqs[i].ts \in {"fresh", "stale", "missing"}) =>
          /\ reqs[i].pc = "done"
          /\ reqs[i].resp = "cached"
          /\ reqs[i].bg \in {"pending", "done"}

C19_Witness ==
    /\ Len(reqs) = 2
    /\ reqs[1].ts = "missing" /\ reqs[1].resp = "cached" /\ reqs[1].put = "done"
    /\ reqs[2].ts = "stale" /\ reqs[2].resp = "cached" /\ reqs[2].bg = "pending"

\* transparentPngResponse
TransparentPng == [status |-> 200, contentType |-> "image/png"]

\* status and content type of the responses the handlers build themselves
Synthesized(resp) ==
    CASE resp = "png" -> TransparentPng
      [] resp = "offlineText" -> [status |-> 503, contentType |-> "text/plain"]
      [] OTHER -> [status |-> 503, contentType |-> "application/json"]

\* C20: an image request with no entry whose fetch fails is answered with
\* the transparent PNG (status 200, image/png), and an image request with an
\* entry is answered with the entry whatever the network does.
C20_ImagePlaceholder ==
    \A i \in DOMAIN reqs :
       (reqs[i].handler = "staleWhileRevalidateImage" /\ reqs[i].pc = "done") =>
          IF reqs[i].bg # "none" THEN reqs[i].resp = "cached"
          ELSE reqs[i].net = "reject" =>
                  /\ reqs[i].resp = "png"
                  /\ Synthesized(reqs[i].resp) = TransparentPng

C20_Witness ==
    /\ Len(reqs) = 2
    /\ reqs[1].url = IconUrl /\ reqs[1].resp = "cached" /\ reqs[1].net = "reject"
    /\ reqs[2].url = RemoteImage /\ reqs[2].bg = "none" /\ reqs[2].net = "reject"
    /\ reqs[2].resp = "png"


\* no write to a bucket is pending and no trimCache call is running
TrimsFinished ==
    \A i \in DOMAIN reqs :
       /\ reqs[i].put # "pending"
       /\ reqs[i].trim.pc \in {"none", "done"}

\* the releases responses kept in the data bucket
GhEntries == {u \in Range(buckets[DATA_CACHE].keys) : u \in GhUrls}

\* C15: once the evictions started by the writes have finished, the shell
\* bucket holds at most MAX_SHELL_ITEMS entries, the image bucket at most
\* MAX_IMAGE_ITEMS and the data bucket at most MAX_GH_ITEMS releases
\* responses.
C15_BucketsBounded ==
    TrimsFinished =>
       /\ Len(buckets[CACHE_NAME].keys) <= MAX_SHELL_ITEMS
       /\ Len(buckets[IMAGE_CACHE].keys) <= MAX_IMAGE_ITEMS
       /\ Cardinality(GhEntries) <= MAX_GH_ITEMS

\* the part of C15 the code keeps: the buckets written through cachePut
C15_TrimmedBucketsBounded ==
    TrimsFinished =>
       /\ Len(buckets[CACHE_NAME].keys) <= MAX_SHELL_ITEMS
       /\ Len(buckets[IMAGE_CACHE].keys) <= MAX_IMAGE_ITEMS


\* C17: when cacheFirst returns a successful network response after a miss,
\* the shell bucket already holds the entry for the request.
C17_StoredBeforeReturn ==
    [][\A i \in DOMAIN reqs :
          (/\ reqs[i].handler = "cacheFirst"
           /\ reqs[i].pc = "cffetch"
           /\ reqs'[i].pc = "done"
           /\ reqs'[i].resp = "network") =>
             reqs[i].url \in Range(buckets'[CACHE_NAME].keys)]_vars


\* C14: every fetch the worker issues is aborted after a bounded time, so
\* every intercepted request is eventually answered even if the network
\* never is.
C14_EveryRequestAnswered ==
    \A i \in 1 .. MaxRequests :
       (i \in DOMAIN reqs) ~> (i \in DOMAIN reqs /\ reqs[i].pc = "done")


\* C16: while the total on GitHub stays at v and fetches succeed, fair polls
\* bring every initialized tab's count to at least v for good, and to
\* exactly v in a tab whose count was never above v, although the worker
\* answers releases requests from its bucket first.
C16_EventuallyAdopted ==
    <>[](\A t \in Tabs :
            /\ Total(sync.counts[t]) >= sync.v
            /\ ~sync.above[t] => Total(sync.counts[t]) = sync.v)

C16_Witness ==
    /\ sync.pc = "run"
    /\ sync.held0 # Undef /\ sync.held0 < sync.v
    /\ sync.c0[1] < sync.v
    /\ sync.cached = sync.v
    /\ Total(sync.counts[1]) = sync.v
    /\ ~sync.above[1]
    /\ sync.c0[2] > sync.v


(***************************************************************************)
(* Routing.                                                                *)
(***************************************************************************)
\* the six rules in the order the routing table lists them
RuleHolds(k, url, mode) ==
    CASE k = 1 -> mode = "navigate"
      [] k = 2 -> IsGithubReleases(url)
      [] k = 3 -> EndsWithMiniJson(url)
      [] k = 4 -> EndsWithJson(url)
      [] k = 5 -> MatchesImagePatterns(url)
      [] k = 6 -> SameOrigin(url)

RuleHandler(k) ==
    CASE k = 1 -> "handleNavigation"
      [] k = 2 -> "staleWhileRevalidateGitHub"
      [] k = 3 -> "staleWhileRevalidateData"
      [] k = 4 -> "networkFirst"
      [] k = 5 -> "staleWhileRevalidateImage"
      [] k = 6 -> "cacheFirst"

\* the first rule a request meets, 0 when it meets none
FirstRule(url, mode) ==
    LET met == {k \in 1 .. 6 : RuleHolds(k, url, mode)}
    IN  IF met = {} THEN 0 ELSE CHOOSE k \in met : \A j \in met : k <= j

\* C21: every intercepted GET request is answered by the first rule it
\* meets in the order navigation, releases API, mini.json, other .json,
\* image patterns, same origin; a request of another origin that meets no
\* rule is left to the browser, and no request other than a GET is taken.
C21_FirstMatchWins ==
    \A i \in DOMAIN reqs :
       LET r == reqs[i]
           k == FirstRule(r.url, r.mode)
       IN  /\ r.method = "GET"
           /\ k > 0 => r.handler = RuleHandler(k) /\ r.resp # "passthrough"
           /\ k = 0 => r.handler = "none" /\ r.resp = "passthrough"

C21_Witness ==
    /\ Len(reqs) = 2
    /\ reqs[1].url = "/mini.json" /\ reqs[1].mode = "navigate"
    /\ reqs[1].handler = "handleNavigation"
    /\ reqs[2].url = RemoteScript /\ reqs[2].resp = "passthrough"


(***************************************************************************)
(* Totals, base names and asset matching.                                  *)
(***************************************************************************)
Foo == <<"F", "o", "o">>

Foo1Ipa == <<"F", "o", "o", "_", "1", ".", "0", ".", "i", "p", "a">>

Foo2Ipa == <<"F", "o", "o", "_", "2", ".", "0", ".", "i", "p", "a">>

\* two releases with Foo_1.0.ipa (5) and Foo_2.0.ipa (7)
FooReleases ==
    <<[hasAssets |-> TRUE, assets |-> <<[name |-> Foo2Ipa, download_count |-> 7]>>],
      [hasAssets |-> TRUE, assets |-> <<[name |-> Foo1Ipa, download_count |-> 5]>>]>>

\* C22: the count of an app is the sum of download_count over every matching
\* asset of every release on every page of its repository; an asset without
\* download_count and a release without an assets array count 0; releases
\* with Foo_1.0.ipa (5) and Foo_2.0.ipa (7) give 12 for base name Foo.
C22_SumOverAllReleases ==
    /\ SumDownloads(FooReleases, Foo) = 12
    /\ (cycle.pc = "done" /\ \A k \in 1 .. 3 : cycle.st[k] = "200") =>
          /\ cycle.counts["a"] = Num(cycle.dl[1]) + Num(cycle.dl[3])
          /\ cycle.counts["c"] = Num(cycle.dl[2])
          /\ cycle.counts["d"] = Num(cycle.dl[4])

C22_Witness ==
    /\ cycle.pc = "done"
    /\ cycle.st = <<"200", "200", "200">>
    /\ cycle.dl = <<1, 2, 2, Null>>
    /\ cycle.counts["a"] = 3
    /\ cycle.counts["d"] = 0


YouTubePlusIpa ==
    <<"Y", "o", "u", "T", "u", "b", "e", "P", "l", "u", "s",
      "_", "5", ".", "2", "b", "4", ".", "i", "p", "a">>

EeveeSpotifyIpa ==
    <<"E", "e", "v", "e", "e", "S", "p", "o", "t", "i", "f", "y", ".", "i", "p", "a">>

ReleaseUrl(file) ==
    [segs |-> <<"github.com", "o", "r1", "releases", "download", "v1">>,
     file |-> file, rest |-> ""]

\* the expected shape: github.com/owner/repo/releases/download/tag/name.ipa
ReleaseShape(url) ==
    /\ url.segs = <<"github.com", "o", "r1", "releases", "download", "v1">>
    /\ url.rest = ""
    /\ Len(url.file) > 4
    /\ ToLowerCase(SubSeq(url.file, Len(url.file) - 3, Len(url.file))) = DotIpa

\* the stem up to the first '_' or '-' that a digit follows, the whole stem
\* when there is none
BeforeVersion(stem) ==
    LET cuts == {i \in 1 .. (Len(stem) - 1) :
                    stem[i] \in {"_", "-"} /\ stem[i + 1] \in Digits}
    IN  IF cuts = {} THEN stem
        ELSE SubSeq(stem, 1, (CHOOSE i \in cuts : \A j \in cuts : i <= j) - 1)

InShotIpa == <<"I", "n", "S", "h", "o", "t", ".", "i", "p", "a">>

InShot2Ipa == <<"I", "n", "S", "h", "o", "t", "2", ".", "i", "p", "a">>

\* one release of a repository two apps share
InShotRelease ==
    <<[hasAssets |-> TRUE,
       assets |-> <<[name |-> InShotIpa, download_count |-> 1],
                    [name |-> InShot2Ipa, download_count |-> 2]>>]>>

\* the same letter, whatever its case
SameLetter(x, y) ==
    \/ x = y
    \/ {x, y} \in {{"A", "a"}, {"I", "i"}, {"P", "p"}}

\* q begins with prefix, case ignored
PrefixIgnoringCase(q, prefix) ==
    /\ Len(prefix) <= Len(q)
    /\ \A j \in 1 .. Len(prefix) : SameLetter(q[j], prefix[j])

\* q ends in .ipa, case ignored
IpaIgnoringCase(q) ==
    /\ Len(q) >= 4
    /\ \A j \in 1 .. 4 : SameLetter(q[Len(q) - 4 + j], DotIpa[j])

\* C24: an asset is attributed to an app exactly when its name, case
\* ignored, ends with .ipa and starts with the base name; InShot.ipa and
\* InShot2.ipa both match inshot, and of two apps whose base names
\* prefix-collide the shorter-named also gets the longer-named asset's
\* downloads.
C24_PrefixMatch ==
    /\ AssetMatches(InShotIpa, <<"i", "n", "s", "h", "o", "t">>)
    /\ AssetMatches(InShot2Ipa, <<"i", "n", "s", "h", "o", "t">>)
    /\ SumDownloads(InShotRelease, SubSeq(InShotIpa, 1, 6)) = 3
    /\ SumDownloads(InShotRelease, SubSeq(InShot2Ipa, 1, 7)) = 2
    /\ (call.pc = "done" /\ call.fn = "_assetMatches") =>
          (call.out <=> /\ IpaIgnoringCase(call.assetName)
                        /\ PrefixIgnoringCase(call.assetName, call.baseName))

C24_Witness ==
    /\ call.pc = "done"
    /\ call.fn = "_assetMatches"
    /\ call.assetName = <<"A", "p", "2", ".", "I", "P", "A">>
    /\ call.baseName = <<"a", "p">>
    /\ call.out


(***************************************************************************)
(* The localStorage cache of the Download Counter.                         *)
(***************************************************************************)
\* the cycle a step adds to a tab's cycles in flight
Started(t) == inflight'[t][Len(inflight'[t])]

\* C25: a cycle that is not forced returns the localStorage entry, with no
\* request, when the entry is younger than the TTL; a forced cycle never
\* returns it; and the entry is written at the end of every cycle that went
\* to the network.
C25_FastCacheFirst ==
    [][\A t \in Tabs :
          /\ Len(inflight'[t]) = Len(inflight[t]) + 1 =>
                IF Started(t).kind = "init" /\ cache.present /\ cache.fresh
                THEN Started(t).src = "cache" /\ Started(t).data = cache.data
                ELSE Started(t).src = "net"
          /\ \A i \in DOMAIN inflight[t] :
                (inflight'[t] = Remove(inflight[t], i)) =>
                   IF inflight[t][i].src = "net"
                   THEN cache'.present /\ cache'.fresh
                   ELSE /\ cache' = cache
                        /\ counts'[t] = InitMerge(counts[t], inflight[t][i].data)]_vars

C25_Witness ==
    /\ \E i \in DOMAIN inflight[1] :
          inflight[1][i].kind = "init" /\ inflight[1][i].src = "cache"
    /\ \E i \in DOMAIN inflight[1] :
          inflight[1][i].kind = "poll" /\ inflight[1][i].src = "net"


(***************************************************************************)
(* The Download Counter without a broadcast channel.                       *)
(***************************************************************************)
\* C26: with no channel, or with posting failing, recordDownload, init, the
\* poll and the reconciliation run to their end and change the tab's counts,
\* timers and cache as they do with a channel; only the messages are absent.
C26_LocalWithoutChannel ==
    [][\A t \in Local :
          /\ \A b \in Bundles :
                recorded'[t][b] = recorded[t][b] + 1 =>
                   /\ counts'[t] = Increment(counts[t], b)
                   /\ Pending(t, "postDl") # {} => superseded'[t]
                   /\ \E x \in timers'[t] : x.kind = "postDl" /\ x.id = postDlTimer'[t]
          /\ \A i \in DOMAIN inflight[t] :
                inflight'[t] = Remove(inflight[t], i) =>
                   /\ \E r \in NetResults \cup {inflight[t][i].data} :
                         counts'[t] = MergeMax(counts[t], r)
                   /\ inflight[t][i].kind = "init" =>
                         ~pendingInit'[t] /\ pollTimer'[t] # 0
                   /\ inflight[t][i].kind # "init" =>
                         cache' = WriteCache(counts'[t])
          /\ ~channel[t] => inbox' = inbox]_vars

C26_Witness ==
    /\ ~channel[1]
    /\ recorded[1]["a"] = 1
    /\ counts[1]["a"] = Gh0 + 1
    /\ \E x \in timers[1] : x.kind = "poll"
    /\ \E x \in timers[1] : x.kind = "postDl"


\* C27: once the page's unload handler has run, the Download Counter is torn
\* down: no poll timer and no reconciliation timer of the tab is left and
\* its channel is closed.
C27_TeardownOnUnload ==
    \A t \in Local :
       unloaded[t] =>
          /\ timers[t] = {}
          /\ pollTimer[t] = 0 /\ postDlTimer[t] = 0
          /\ ~channel[t]


(***************************************************************************)
(* trimCache on its own.                                                   *)
(***************************************************************************)
\* what the bucket held when trimCache was called
Held == before[CACHE_NAME].keys

\* C28: trimCache running alone on a bucket of maxItems + k entries, k > 0,
\* deletes the k entries first in insertion order and leaves the other
\* maxItems in place; on a bucket of at most maxItems entries it deletes
\* nothing.
C28_TrimEvictsOldest ==
    (Len(reqs) = 1 /\ reqs[1].trim.pc = "done") =>
       buckets[CACHE_NAME].keys =
          IF Len(Held) <= MAX_SHELL_ITEMS THEN Held
          ELSE SubSeq(Held, Len(Held) - MAX_SHELL_ITEMS + 1, Len(Held))

C28_Witness ==
    /\ Len(reqs) = 1
    /\ reqs[1].trim.pc = "done"
    /\ Len(Held) = MAX_SHELL_ITEMS + 2
    /\ Len(buckets[CACHE_NAME].keys) = MAX_SHELL_ITEMS


\* C29: a .json request handled by networkFirst gets the network's response
\* when the fetch resolves (stored when ok), the cached copy when the fetch
\* rejects and a copy exists, and otherwise the 503 JSON body with error
\* 'offline'.
C29_NetworkFirstFallbacks ==
    \A i \in DOMAIN reqs :
       (reqs[i].handler = "networkFirst" /\ reqs[i].pc = "done") =>
          /\ reqs[i].resp \in {"network", "status", "cached", "offlineJson"}
          /\ reqs[i].resp = "network" => reqs[i].put # "none"
          /\ reqs[i].resp = "status" => reqs[i].put = "none"


\* C30: however the request for the 'sw-cache-cleanup' lock ends (granted,
\* aborted by the 5 s timer, or failed), deleteOldCaches runs next, without
\* the lock in the last two cases; and an activation that has begun always
\* ends with clients.claim(), also when the cleanup or the preload enabling
\* fails.
C30_ActivationEndsClaiming ==
    /\ [][cleanup.pc = "pending" /\ cleanup'.pc # "pending" =>
             /\ cleanup'.pc = "keys"
             /\ cleanup'.lock \in {"granted", "abort", "error"}]_vars
    /\ (swPhase = "activating") ~> (swPhase = "activated")

\* the lock request timed out, the preload enabling failed, the old bucket
\* was deleted all the same and the clients are claimed
C30_Witness ==
    /\ swPhase = "activated"
    /\ cleanup = [pc |-> "done", lock |-> "abort", todo |-> {}]
    /\ preload = [support |-> TRUE, enabled |-> FALSE, settled |-> TRUE]
    /\ before[OldShellCache].exists
    /\ ~buckets[OldShellCache].exists


\* the pages from p on in the order of their next links, n of them at most
RECURSIVE Chain(_, _, _)
Chain(server, p, n) ==
    IF p = 0 \/ n = 0 THEN <<>>
    ELSE <<p>> \o Chain(server, server.next[p], n - 1)

\* the chain of next links from the first page ends
ChainEnds(server) == Len(Chain(server, 1, MaxFetches)) <= MaxPages

\* the pages read before the page that is not ok, if the loop comes to it
BeforeBad(server) ==
    LET chain == Chain(server, 1, MaxFetches)
    IN  {j \in DOMAIN chain : chain[j] = server.bad}

C32_NoDoubleCount ==
    \A t \in Tabs : \A b \in Bundles :
       Get(counts[t], b, 0) <= Gh0 + RecordedAll(b)


\* C33: with trims running beside the cache writes that start them, an
\* eviction never takes a bounded bucket below its maxItems: trimming evicts
\* no more than the excess the bucket has at the time.
C33_TrimWithinExcess ==
    [][\A name \in {CACHE_NAME, IMAGE_CACHE} :
          Len(buckets'[name].keys) < Len(buckets[name].keys) =>
             Len(buckets'[name].keys) >= MaxItems(name)]_vars


\* the forced fetch cycles a tab is awaiting
Forced(t) ==
    {i \in DOMAIN inflight[t] : inflight[t][i].kind \in {"poll", "postDl"}}

\* C34: a tab awaits at most one forced fetch cycle (poll or post-download
\* reconciliation) at any time.
C34_OneForcedCycle == \A t \in Tabs : Cardinality(Forced(t)) <= 1


\* the tab handles a message in this step
Handles(t) == Len(inbox'[t]) < Len(inbox[t])

\* a local init, download, poll or reconciliation event of the tab: a call
\* of recordDownload, or a fetch cycle of the tab settling
LocalEvent(t) ==
    \/ recorded'[t] # recorded[t]
    \/ Len(inflight'[t]) < Len(inflight[t])

\* C35: handling a broadcast message changes the in-memory counts only: the
\* tab posts nothing, its timers, its fetch cycles and the fast cache stay as
\* they are; a message is posted only by a local init, download, poll or
\* reconciliation event, one message per event.
C35_ReceiveOnlyMerges ==
    [][\A t \in Tabs :
          /\ Handles(t) =>
                /\ \A u \in Tabs \ {t} : inbox'[u] = inbox[u]
                /\ inbox'[t] = Tail(inbox[t])
                /\ timers' = timers
                /\ pollTimer' = pollTimer /\ postDlTimer' = postDlTimer
                /\ inflight' = inflight
                /\ cache' = cache
          /\ \A u \in Tabs \ {t} :
                inbox'[u] # inbox[u] /\ ~Handles(u) =>
                   /\ LocalEvent(t)
                   /\ Len(inbox'[u]) = Len(inbox[u]) + 1]_vars

\* tab 2 has handled the optimistic-increment of tab 1's download and
\* nothing else has happened in it
C35_Witness ==
    /\ recorded[1]["a"] = 1 /\ recorded[2]["a"] = 0
    /\ gh["a"] = Gh0
    /\ counts[2]["a"] = Gh0 + 1
    /\ inbox[2] = <<>> /\ inbox[1] = <<>>
    /\ inflight[2] = <<>>
    /\ timers[2] = {[id |-> 1, kind |-> "poll", left |-> 0]}


\* a count as the map holds it: a non-negative integer, or no entry
IsCount(v) == v = Undef \/ v \in Nat

\* C36: every value of a tab's in-memory counts is a non-negative integer,
\* and so is every value of a counts-update message posted: null from a
\* failed fetch is neither stored in memory nor sent.
C36_CountsAreNumbers ==
    /\ \A t \in Tabs : \A b \in Bundles : IsCount(counts[t][b])
    /\ \A t \in Tabs : \A j \in DOMAIN inbox[t] :
          inbox[t][j].type = "counts-update" =>
             \A b \in Bundles : IsCount(inbox[t][j].counts[b])

\* init has completed in tab 1 with a fetch that failed: the fast cache
\* holds null, the tab's memory holds nothing and polling has started
C36_Witness ==
    /\ pollTimer[1] # 0
    /\ cache.present /\ cache.data["a"] = Null
    /\ counts[1]["a"] = Undef
    /\ inbox[2] # <<>>


\* the fast cache holds null for the tracked app and is younger than the TTL
NullCached == cache.present /\ cache.fresh /\ cache.data["a"] = Null

\* an init call of the tab gets past its guards in this step, and the cycle
\* it starts
InitStarts(t) == ~pendingInit[t] /\ pendingInit'[t]

Started37(t) == inflight'[t][Len(inflight'[t])]

\* the init cycle the tab awaited settles in this step, served by the network
InitSettlesFromNet(t) ==
    /\ pendingInit[t] /\ ~pendingInit'[t]
    /\ \E i \in DOMAIN inflight[t] :
          /\ inflight[t][i].kind = "init" /\ inflight[t][i].src = "net"
          /\ inflight'[t] = Remove(inflight[t], i)

\* an init cycle on the network writes what it fetched, null included, and a
\* non-forced cycle that starts on the null entry returns it without the
\* network
NullWrittenAndServed ==
    \A t \in Tabs :
       /\ InitSettlesFromNet(t) =>
             /\ cache'.present /\ cache'.fresh
             /\ cache'.data["a"] = Null => counts'[t] = counts[t]
       /\ InitStarts(t) /\ NullCached =>
             /\ Started37(t).src = "cache"
             /\ Started37(t).data["a"] = Null

\* C37 as stated: after an init cycle with a failed fetch the fast cache
\* holds null for the repository's apps, the entry stays for the 2 minutes of
\* its TTL, and every non-forced cycle in either tab in that time returns
\* null without the network.
C37_NullCachedForTtl ==
    [][/\ NullWrittenAndServed
       /\ NullCached => cache' = cache \/ cache' = [cache EXCEPT !.fresh = FALSE]]_vars

\* a forced cycle of the tab starts or settles in this step
ForcedStep(t) ==
    \/ Cardinality(Forced(t)) # Cardinality({i \in DOMAIN inflight'[t] :
                                   inflight'[t][i].kind \in {"poll", "postDl"}})

\* C37 amended: after an init cycle with a failed fetch the fast cache holds
\* null for the repository's apps, and every non-forced cycle that starts
\* while that entry is there and younger than 2 minutes returns null without
\* the network; the entry goes before its TTL only when a poll or a
\* reconciliation starts or settles, or when another init cycle that was on
\* the network settles.
C37_NullCachedUntilForced ==
    [][/\ NullWrittenAndServed
       /\ NullCached =>
             \/ cache' = cache
             \/ cache' = [cache EXCEPT !.fresh = FALSE]
             \/ \E t \in Tabs : ForcedStep(t) \/ InitSettlesFromNet(t)]_vars

\* tab 1's init failed and wrote null; tab 2's init cycle was started on that
\* entry and carries the null
C37_Witness ==
    /\ pollTimer[1] # 0
    /\ NullCached
    /\ Len(inflight[2]) = 1
    /\ inflight[2][1] = [kind |-> "init", src |-> "cache", data |-> cache.data]


\* C38: once the data bucket holds an entry for a releases URL, a request for
\* it, forced or not, receives the entry, which an earlier request stored,
\* and never what is fetched for itself; and when every request has come
\* after the fetch and the store of the one before it were complete, and the
\* fetch of the request before it succeeded, it receives exactly what that
\* request fetched.
C38_ServedOneRequestBehind ==
    \A i \in DOMAIN call.reqs :
       LET rq == call.reqs[i]
       IN  /\ rq.had =>
                 /\ rq.src = "cache"
                 /\ rq.by < i
                 /\ rq.by > 0 => rq.resp = call.reqs[rq.by].got
           /\ (/\ i > 1
               /\ \A k \in 1 .. i : call.reqs[k].seq
               /\ call.reqs[i - 1].outcome = "ok") =>
                 /\ rq.src = "cache"
                 /\ rq.by = i - 1
                 /\ rq.resp = call.reqs[i - 1].got

\* a forced second request, made after the first had stored its response,
\* received the data of the first request's fetch although its own fetch
\* brought newer data
C38_Witness ==
    /\ Len(call.reqs) = 2
    /\ call.reqs[1].seq
    /\ call.reqs[2].forced /\ call.reqs[2].seq
    /\ call.reqs[2].pc = "done"
    /\ call.reqs[2].resp = call.reqs[1].got
    /\ call.reqs[2].got > call.reqs[2].resp


\* C39: a network response whose status is not ok is never written to a
\* bucket, and the handler that awaited it returns it as it is, without a
\* cached or offline fallback; a handler that had already answered from its
\* bucket drops it.
C39_NotOkPassedThrough ==
    \A i \in DOMAIN reqs :
       reqs[i].net = "status" =>
          /\ reqs[i].put = "none"
          /\ reqs[i].bg = "none" => reqs[i].resp \in {"status", "preload"}


\* the responses that leave a repository without a total: the fetch rejected
\* (network failure or timeout), a rate-limit status, the worker's 503 stub
Failures == {"abort", "403", "429", "503"}

\* the loop of _fetchAllReleases for the repository ends at such a response
FailedRepo(repo) ==
    IF repo = "r1"
    THEN \/ cycle.st[1] \in Failures
         \/ cycle.st[1] = "200" /\ cycle.st[2] \in Failures
    ELSE cycle.st[3] \in Failures

\* what the cycle returned for the bundle ids the tab keeps counts of
FreshOf(c) == [k \in Bundles |-> IF k \in CycleBundles THEN c[k] ELSE Undef]

\* C40: a network failure, a rate-limit response or the worker's 503 stub
\* gives the repository's apps the fetched count null, never 0, and each of
\* the three merges then leaves the count in memory exactly as it was.
C40_FailureIsNullNotZero ==
    cycle.pc = "done" =>
       \A app \in CycleApps :
          (app.repo # "" /\ FailedRepo(app.repo)) =>
             /\ cycle.counts[app.bundleId] = Null
             /\ app.bundleId \in Bundles =>
                   \A site \in {"init", "poll", "postDl"} :
                      \A cur \in {Undef} \cup (0 .. MaxCount) :
                         MergeAt(site, Put(EmptyMap, app.bundleId, cur),
                                 FreshOf(cycle.counts))[app.bundleId] = cur

\* the first repository was answered with the worker's stub, the second
\* with a rejected fetch: both have null
C40_Witness ==
    /\ cycle.pc = "done"
    /\ cycle.st = <<"503", "200", "abort">>
    /\ cycle.counts["a"] = Null
    /\ cycle.counts["d"] = Null
    /\ ~cycle.threw

=============================================================================
